---------------------------- MODULE Spec2Model ----------------------------
(***************************************************************************)
(* Model of the user directory (app/models/user.py), the account creation  *)
(* schema (app/schemas/base.py) and the calculation record service         *)
(* (app/services/calculation_service.py).                                  *)
(*                                                                         *)
(* Strings are sequences of one-character strings, so that length,         *)
(* character classes and case conversion are computed as Python computes   *)
(* them.  Time is counted in ticks of the clock.  An optional column (NULL  *)
(* or a value) is a set with at most one element.                          *)
(***************************************************************************)
EXTENDS Integers, Sequences, FiniteSets, TLC

(***************************************************************************)
(* Bounds of the model.                                                    *)
(***************************************************************************)
MaxOps == 3      \* operations started in one behaviour
MaxTime == 2     \* largest value of the clock
MaxRaceTime == 1 \* largest value of the clock while register and authenticate run
TicksPerSecond == 2     \* resolution of the clock

(***************************************************************************)
(* Characters and strings.  The classes are those of Python's str methods, *)
(* which test the Unicode properties of a character; they are given here   *)
(* for the characters U+0001 to U+00FF.                                    *)
(***************************************************************************)
DigitSeq == <<"0", "1", "2", "3", "4", "5", "6", "7", "8", "9">>

Range(s) == {s[i] : i \in DOMAIN s}

\* str.isdigit: the decimal digits and the superscript digits
Digits == Range(DigitSeq) \cup {"²", "³", "¹"}

\* the letters with a lowercase form, and that form at the same position
UpperSeq == <<"A", "B", "C", "D", "E", "F", "G", "H", "I", "J", "K", "L",
             "M", "N", "O", "P", "Q", "R", "S", "T", "U", "V", "W", "X",
             "Y", "Z", "À", "Á", "Â", "Ã", "Ä", "Å", "Æ", "Ç", "È", "É",
             "Ê", "Ë", "Ì", "Í", "Î", "Ï", "Ð", "Ñ", "Ò", "Ó", "Ô", "Õ",
             "Ö", "Ø", "Ù", "Ú", "Û", "Ü", "Ý", "Þ">>

LowerSeq == <<"a", "b", "c", "d", "e", "f", "g", "h", "i", "j", "k", "l",
             "m", "n", "o", "p", "q", "r", "s", "t", "u", "v", "w", "x",
             "y", "z", "à", "á", "â", "ã", "ä", "å", "æ", "ç", "è", "é",
             "ê", "ë", "ì", "í", "î", "ï", "ð", "ñ", "ò", "ó", "ô", "õ",
             "ö", "ø", "ù", "ú", "û", "ü", "ý", "þ">>

\* str.isupper
Upper == Range(UpperSeq)

\* str.islower: the lowercase forms and the lowercase letters without an
\* uppercase form among these characters
Lower == Range(LowerSeq) \cup {"ª", "µ", "º", "ß", "ÿ"}

\* str.isalnum of one character: a letter, a digit or a fraction
Alnum == Digits \cup Upper \cup Lower \cup {"¼", "½", "¾"}

\* the literal of base.py line 52
SpecialChars == {"!", "@", "#", "$", "%", "^", "&", "*", "(", ")", "-", "_",
                 "=", "+", "[", "]", "{", "}", "|", ";", ":", ",", ".", "<",
                 ">", "?", "/"}

\* str.isdigit / str.isupper / str.islower on one character
isdigit(c) == c \in Digits

isupper(c) == c \in Upper

islower(c) == c \in Lower

\* str.isalnum: non-empty and every character alphanumeric
isalnum(s) == Len(s) > 0 /\ \A i \in DOMAIN s : s[i] \in Alnum

\* str.lower on one character
LowerChar(c) == IF c \in Upper
                   THEN LowerSeq[CHOOSE i \in DOMAIN UpperSeq : UpperSeq[i] = c]
                   ELSE c

Repeat(c, n) == [i \in 1..n |-> c]

(***************************************************************************)
(* The strings the requests are drawn from.                                *)
(***************************************************************************)
PW_short == <<"s", "h", "o", "r", "t">>
PW_NoDigitsHere == <<"N", "o", "D", "i", "g", "i", "t", "s", "H", "e", "r", "e", "!">>
PW_12345678 == <<"1", "2", "3", "4", "5", "6", "7", "8">>
PW_lowercase1 == <<"l", "o", "w", "e", "r", "c", "a", "s", "e", "1">>
PW_UPPERCASE1 == <<"U", "P", "P", "E", "R", "C", "A", "S", "E", "1">>
PW_Password123 == <<"P", "a", "s", "s", "w", "o", "r", "d", "1", "2", "3">>
PW_SecurePass == <<"S", "e", "c", "u", "r", "e", "P", "a", "s", "s", "1", "2", "3", "!">>
PW_Wrong == <<"W", "r", "o", "n", "g", "P", "a", "s", "s", "w", "o", "r", "d", "1", "2", "3", "!">>
PW_Min8 == <<"A", "a", "1", "!", "a", "a", "a", "a">>
PW_Len7 == <<"A", "a", "1", "!", "a", "a", "a">>
PW_a128 == Repeat("a", 128)
PW_a129 == Repeat("a", 129)
PW_Max128 == PW_Min8 \o Repeat("a", 120)
PW_Len129 == PW_Min8 \o Repeat("a", 121)
PW_Tilde == <<"A", "a", "1", "~", "a", "a", "a", "a">>
PW_Len72 == PW_Min8 \o Repeat("a", 64)
PW_Len73 == PW_Min8 \o Repeat("a", 65)
PW_Len73b == PW_Min8 \o Repeat("a", 64) \o <<"b">>
\* the only digit is U+00B2, the only uppercase letter U+00C9, the only
\* lowercase letter U+00E9
PW_SuperDigit == <<"A", "a", "!", "a", "a", "a", "a", "²">>
PW_UpperLatin == <<"É", "a", "1", "!", "a", "a", "a", "a">>
PW_LowerLatin == <<"A", "1", "!", "A", "A", "A", "A", "é">>
\* 71 characters, 72 bytes; the last character has two bytes
PW_Len71e == PW_Min8 \o Repeat("a", 62) \o <<"é">>
\* 72 characters, 73 bytes: they differ in a character whose second byte is
\* the 73rd
PW_Len72e == PW_Min8 \o Repeat("a", 63) \o <<"é">>
PW_Len72u == PW_Min8 \o Repeat("a", 63) \o <<"ü">>

U_ann == <<"a", "n", "n">>
U_bob == <<"b", "o", "b">>
U_zed == <<"z", "e", "d">>
U_al == <<"a", "l">>
U_a_b == <<"a", "_", "b">>
U_jose == <<"j", "o", "s", "é">>
U_ab2 == <<"a", "b", "²">>
U_Len50 == Repeat("u", 50)
U_Len51 == Repeat("u", 51)

E_ann == <<"a", "n", "n", "@", "x", ".", "i", "o">>
E_annUp == <<"a", "n", "n", "@", "X", ".", "I", "O">>
E_bob == <<"b", "o", "b", "@", "x", ".", "i", "o">>
E_annLead == <<" ">> \o E_ann
E_annTrail == E_ann \o <<" ">>
E_annPretty == <<"A", "n", "n", " ", "L", "e", "e", " ", "<">> \o E_ann \o <<">">>
E_annPrettyUp == <<"A", "n", "n", " ", "L", "e", "e", " ", "<">> \o E_annUp \o <<">", " ">>
E_annOpen == <<"A", "n", "n", " ", "<">> \o E_ann
\* a name in double quotes that holds double quotes and angle brackets
E_annQuoted == <<"\"", "A", "\"", " ", "<", "B", ">", " ", "\"", "C", "\"", " ", "<">> \o E_ann \o <<">">>
\* a line feed inside the angle brackets
E_annLineFeed == <<"A", "n", "n", " ", "<">> \o E_ann \o <<"\n", ">">>
\* white space that is not a blank: a form feed, a no-break space
E_annFormFeed == <<"\f">> \o E_ann
E_annNoBreak == E_ann \o <<" ">>
\* a display name with a letter beyond "z"
E_annJose == <<"J", "o", "s", "é", " ", "<">> \o E_ann \o <<">">>
E_bad == <<"n", "o", "t", "-", "a", "n", "-", "e", "m", "a", "i", "l">>

N_John == <<"J", "o", "h", "n">>
N_Doe == <<"D", "o", "e">>
N_Empty == <<>>
N_Len50 == Repeat("n", 50)
N_Len51 == Repeat("n", 51)

(***************************************************************************)
(* EmailStr (base.py line 10).  pydantic's validate_email takes the        *)
(* address out of a text of the form  name <address>, strips the white     *)
(* space around it, has it checked, and returns it in normalised form, the *)
(* domain part lower-cased.                                                *)
(***************************************************************************)
\* str.isspace of one character: the characters str.strip() removes and the
\* class \s of a pattern
Whitespace == {"\t", "\n", "", "\f", "\r", "", "", "", "", " ", "",
               " "}

\* str.strip()
RECURSIVE strip(_)
strip(s) ==
    IF Len(s) = 0 THEN s
    ELSE IF s[1] \in Whitespace THEN strip(SubSeq(s, 2, Len(s)))
    ELSE IF s[Len(s)] \in Whitespace THEN strip(SubSeq(s, 1, Len(s) - 1))
    ELSE s

\* the characters of a display name without quotes: the class \w and the
\* listed signs (all but the backtick, which a string of this module cannot
\* hold)
NameChars == Alnum
                 \cup {"_", "!", "#", "$", "%", "&", "'", "*", "+", "-", "/", "=", "?",
                       "^", "{", "|", "}", "~"}

\* the position of the first character of s at or after i that is not in
\* class, Len(s) + 1 when there is none
RECURSIVE Skip(_, _, _)
Skip(s, i, class) ==
    IF i > Len(s) \/ s[i] \notin class THEN i ELSE Skip(s, i + 1, class)

\* the address group for the "<" at k: the pattern <(.+)>\s* up to the end
\* of the text, where "." is any character but the line feed; the ">" is the
\* last one, with nothing but white space behind it
EmailGroup(s, k) ==
    {SubSeq(s, k + 1, c - 1) :
        c \in {c \in (k + 2)..Len(s) :
                  /\ s[c] = ">"
                  /\ \A i \in (c + 1)..Len(s) : s[i] \in Whitespace
                  /\ \A i \in (k + 1)..(c - 1) : s[i] # "\n"}}

\* pretty_email_regex.fullmatch: white space, a display name or none, white
\* space, "<", the address, ">", white space.  The name is a run of words of
\* name characters, or a text in double quotes, which may itself hold double
\* quotes and ends at the last double quote that lets the rest match.  The
\* value is the set of the address matched, empty when there is no match.
PrettyMatch(s) ==
    LET f == Skip(s, 1, Whitespace)
        after == IF f > Len(s) THEN {}
                 ELSE IF s[f] = "<" THEN {f}
                 ELSE IF s[f] \in NameChars
                     THEN {Skip(s, f, NameChars \cup Whitespace)}
                 ELSE IF s[f] = "\""
                     THEN {Skip(s, j + 1, Whitespace) :
                              j \in {j \in (f + 2)..Len(s) : s[j] = "\""}}
                 ELSE {}
        opens == {k \in after : k <= Len(s) /\ s[k] = "<" /\ EmailGroup(s, k) # {}}
    IN  IF opens = {} THEN {}
        ELSE EmailGroup(s, CHOOSE k \in opens : \A j \in opens : j <= k)

\* the text handed to email_validator: the address group when the text
\* matches, the text itself otherwise; stripped
pretty_email(s) ==
    IF PrettyMatch(s) # {} THEN strip(CHOOSE a \in PrettyMatch(s) : TRUE)
    ELSE strip(s)

AtPositions(s) == {i \in DOMAIN s : s[i] = "@"}

LocalPart(s) == SubSeq(s, 1, (CHOOSE i \in AtPositions(s) : TRUE) - 1)

DomainPart(s) == SubSeq(s, (CHOOSE i \in AtPositions(s) : TRUE) + 1, Len(s))

\* the characters of the two parts of an address: the letters A to Z and a to
\* z, the decimal digits and a few signs
DomainChars == Range(DigitSeq) \cup Range(SubSeq(UpperSeq, 1, 26))
                   \cup Range(SubSeq(LowerSeq, 1, 26)) \cup {".", "-"}

LocalChars == DomainChars \cup {"_", "+"}

\* no empty label: no leading, trailing or doubled dot
DotsOk(s) == /\ Len(s) > 0
             /\ s[1] # "." /\ s[Len(s)] # "."
             /\ \A i \in 1..(Len(s) - 1) : ~(s[i] = "." /\ s[i + 1] = ".")

\* email_validator.validate_email(address, check_deliverability=False)
AddressValid(s) ==
    /\ Cardinality(AtPositions(s)) = 1
    /\ DotsOk(LocalPart(s)) /\ Range(LocalPart(s)) \subseteq LocalChars
    /\ DotsOk(DomainPart(s)) /\ Range(DomainPart(s)) \subseteq DomainChars
    /\ "." \in Range(DomainPart(s))

\* parts.normalized of an address
NormalizeAddress(s) ==
    LocalPart(s) \o <<"@">> \o [i \in DOMAIN DomainPart(s) |-> LowerChar(DomainPart(s)[i])]

EmailValid(s) == Len(s) <= 2048 /\ AddressValid(pretty_email(s))

NormalizeEmail(s) == NormalizeAddress(pretty_email(s))

(***************************************************************************)
(* PasswordMixin.validate_passwords_match: the reason of the first failing *)
(* check, "" when every check passes.  values.has_password is FALSE when   *)
(* values.get("password") is None.                                         *)
(***************************************************************************)
MIN_PASSWORD_LENGTH == 8
MAX_PASSWORD_LENGTH == 128

\* variant: the special-character check is missing
validate_passwords_match_NoSpecial(values) ==
    LET password == values.password IN
    IF ~values.has_password THEN "Password must be provided"
    ELSE IF Len(password) < MIN_PASSWORD_LENGTH
        THEN "Password must be at least 8 characters long"
    ELSE IF Len(password) > MAX_PASSWORD_LENGTH
        THEN "Password must not exceed 128 characters"
    ELSE IF ~\E i \in DOMAIN password : isdigit(password[i])
        THEN "Password must contain at least one digit"
    ELSE IF ~\E i \in DOMAIN password : isupper(password[i])
        THEN "Password must contain at least one uppercase letter"
    ELSE IF ~\E i \in DOMAIN password : islower(password[i])
        THEN "Password must contain at least one lowercase letter"
    ELSE ""

\* variant: the uppercase check precedes the digit check
validate_passwords_match_UpperFirst(values) ==
    LET password == values.password IN
    IF ~values.has_password THEN "Password must be provided"
    ELSE IF Len(password) < MIN_PASSWORD_LENGTH
        THEN "Password must be at least 8 characters long"
    ELSE IF Len(password) > MAX_PASSWORD_LENGTH
        THEN "Password must not exceed 128 characters"
    ELSE IF ~\E i \in DOMAIN password : isupper(password[i])
        THEN "Password must contain at least one uppercase letter"
    ELSE IF ~\E i \in DOMAIN password : isdigit(password[i])
        THEN "Password must contain at least one digit"
    ELSE IF ~\E i \in DOMAIN password : islower(password[i])
        THEN "Password must contain at least one lowercase letter"
    ELSE IF ~\E i \in DOMAIN password : password[i] \in SpecialChars
        THEN "Password must contain at least one special character"
    ELSE ""

validate_passwords_match(values) ==
    LET password == values.password IN
    IF ~values.has_password THEN "Password must be provided"
    ELSE IF Len(password) < MIN_PASSWORD_LENGTH
        THEN "Password must be at least 8 characters long"
    ELSE IF Len(password) > MAX_PASSWORD_LENGTH
        THEN "Password must not exceed 128 characters"
    ELSE IF ~\E i \in DOMAIN password : isdigit(password[i])
        THEN "Password must contain at least one digit"
    ELSE IF ~\E i \in DOMAIN password : isupper(password[i])
        THEN "Password must contain at least one uppercase letter"
    ELSE IF ~\E i \in DOMAIN password : islower(password[i])
        THEN "Password must contain at least one lowercase letter"
    ELSE IF ~\E i \in DOMAIN password : password[i] \in SpecialChars
        THEN "Password must contain at least one special character"
    ELSE ""

(***************************************************************************)
(* UserBase: the field constraints and validate_username.                  *)
(***************************************************************************)
MIN_NAME_LENGTH == 1
MAX_NAME_LENGTH == 50
MIN_USERNAME_LENGTH == 3
MAX_USERNAME_LENGTH == 50

validate_username(v) == IF ~isalnum(v) THEN "Username must be alphanumeric" ELSE ""

NameReason(v) ==
    IF Len(v) < MIN_NAME_LENGTH THEN "String should have at least 1 character"
    ELSE IF Len(v) > MAX_NAME_LENGTH THEN "String should have at most 50 characters"
    ELSE ""

UsernameReason(v) ==
    IF Len(v) < MIN_USERNAME_LENGTH THEN "String should have at least 3 characters"
    ELSE IF Len(v) > MAX_USERNAME_LENGTH THEN "String should have at most 50 characters"
    ELSE validate_username(v)

EmailReason(v) == IF ~EmailValid(v) THEN "value is not a valid email address" ELSE ""

\* the reason of the first field that fails, in the order of declaration
UserBaseReason(values) ==
    IF NameReason(values.first_name) # "" THEN NameReason(values.first_name)
    ELSE IF NameReason(values.last_name) # "" THEN NameReason(values.last_name)
    ELSE IF EmailReason(values.email) # "" THEN EmailReason(values.email)
    ELSE UsernameReason(values.username)

(***************************************************************************)
(* UserCreate.model_validate: the mode='before' validator runs first and   *)
(* its error is the whole error; then the fields are validated.  The       *)
(* validated object carries the normalised email.                          *)
(***************************************************************************)
UserCreateReason(values) ==
    IF validate_passwords_match(values) # "" THEN validate_passwords_match(values)
    ELSE UserBaseReason(values)

\* variant: the email is stored as submitted
UserCreate_RawEmail(values) ==
    [first_name |-> values.first_name,
     last_name  |-> values.last_name,
     email      |-> values.email,
     username   |-> values.username,
     password   |-> values.password]

UserCreate(values) ==
    [first_name |-> values.first_name,
     last_name  |-> values.last_name,
     email      |-> NormalizeEmail(values.email),
     username   |-> values.username,
     password   |-> values.password]


(***************************************************************************)
(* Identifiers: uuid.uuid4() is modelled by a counter, str(id) by the      *)
(* text "uuid-" followed by the decimal digits of the counter.             *)
(***************************************************************************)
RECURSIVE Decimal(_)
Decimal(n) == IF n < 10 THEN <<DigitSeq[n + 1]>>
              ELSE Decimal(n \div 10) \o <<DigitSeq[(n % 10) + 1]>>

\* the number that decimal digits write
RECURSIVE DecimalValue(_)
DecimalValue(s) ==
    IF s = <<>> THEN 0
    ELSE 10 * DecimalValue(SubSeq(s, 1, Len(s) - 1))
         + (CHOOSE n \in 0..9 : DigitSeq[n + 1] = s[Len(s)])

UuidPrefix == <<"u", "u", "i", "d", "-">>

uuid_str(id) == UuidPrefix \o Decimal(id)

(***************************************************************************)
(* Values that may or may not be a str: a str is the sequence of its       *)
(* characters; None is the mark "NoneType"; the int n is the mark "int"    *)
(* followed by its digits; the uuid.UUID object of the id n is the mark    *)
(* "UUID" followed by the digits of n.                                     *)
(***************************************************************************)
PyNone == <<"NoneType">>

PyInt(n) == <<"int">> \o Decimal(n)

PyUuid(n) == <<"UUID">> \o Decimal(n)

\* isinstance(v, str)
isinstance_str(v) == Len(v) = 0 \/ v[1] \notin {"NoneType", "int", "UUID"}

(***************************************************************************)
(* User.hash_password / User.verify_password: bcrypt with a random salt;   *)
(* bcrypt reads the first 72 bytes of the password.                        *)
(***************************************************************************)
BCRYPT_MAX_BYTES == 72

Salts == {"salt1", "salt2"}

\* the first byte of the characters that UTF-8 writes in two bytes: one for
\* U+0080 to U+00BF, another for U+00C0 to U+00FF
Utf8Lead ==
    [c \in {"", "", "", "", "", "", "", "", "", "", "", "",
            "", "", "", "", "", "", "", "", "", "", "", "",
            "", "", "", "", "", "", "", "", " ", "¡", "¢", "£",
            "¤", "¥", "¦", "§", "¨", "©", "ª", "«", "¬", "­", "®", "¯",
            "°", "±", "²", "³", "´", "µ", "¶", "·", "¸", "¹", "º", "»",
            "¼", "½", "¾", "¿"} |-> "0xC2"]
    @@
    [c \in {"À", "Á", "Â", "Ã", "Ä", "Å", "Æ", "Ç", "È", "É", "Ê", "Ë",
            "Ì", "Í", "Î", "Ï", "Ð", "Ñ", "Ò", "Ó", "Ô", "Õ", "Ö", "×",
            "Ø", "Ù", "Ú", "Û", "Ü", "Ý", "Þ", "ß", "à", "á", "â", "ã",
            "ä", "å", "æ", "ç", "è", "é", "ê", "ë", "ì", "í", "î", "ï",
            "ð", "ñ", "ò", "ó", "ô", "õ", "ö", "÷", "ø", "ù", "ú", "û",
            "ü", "ý", "þ", "ÿ"} |-> "0xC3"]

\* password.encode("utf-8"): one byte for a character below U+0080, written
\* as the character; two for the others, the second written as the character
RECURSIVE utf8(_)
utf8(password) ==
    IF Len(password) = 0 THEN <<>>
    ELSE IF Len(password) = 1
        THEN IF password[1] \in DOMAIN Utf8Lead
             THEN <<Utf8Lead[password[1]], password[1]>>
             ELSE password
    ELSE utf8(SubSeq(password, 1, Len(password) \div 2))
         \o utf8(SubSeq(password, Len(password) \div 2 + 1, Len(password)))

Truncate(password) ==
    LET bytes == utf8(password)
    IN  IF Len(bytes) > BCRYPT_MAX_BYTES THEN SubSeq(bytes, 1, BCRYPT_MAX_BYTES)
        ELSE bytes

BcryptIdent == <<"$", "2", "b", "$">>

\* the hash text: the identifier, the salt, the digest of the truncated password
hash_password(password, salt) == BcryptIdent \o <<salt>> \o Truncate(password)

\* pwd_context.verify: the digest is recomputed with the salt of the stored
\* hash and compared
pwd_context_verify(password, hashed) ==
    LET salt == hashed[Len(BcryptIdent) + 1]
    IN  hashed = hash_password(password, salt)

\* outcomes of a call
NoResult == [kind |-> "none", prefix |-> "", detail |-> "", value |-> {}]

Returned(v) == [kind |-> "return", prefix |-> "", detail |-> "", value |-> {v}]

ReturnedNone == [kind |-> "return", prefix |-> "", detail |-> "", value |-> {}]

\* raise ValueError(prefix + detail)
ValueError(prefix, detail) ==
    [kind |-> "ValueError", prefix |-> prefix, detail |-> detail, value |-> {}]

TypeError(detail) == [kind |-> "TypeError", prefix |-> "", detail |-> detail, value |-> {}]

\* variant: a hash that is not a str counts as a mismatch
verify_password_NoTypeCheck(user, password) ==
    [kind |-> "return", prefix |-> "", detail |-> "",
     value |-> {isinstance_str(user.hashed_password)
                /\ pwd_context_verify(password, user.hashed_password)}]

verify_password(user, password) ==
    IF ~isinstance_str(user.hashed_password)
    THEN TypeError("Invalid hashed_password type: expected str, got ")
    ELSE [kind |-> "return", prefix |-> "", detail |-> "",
          value |-> {pwd_context_verify(password, user.hashed_password)}]

(***************************************************************************)
(* Time: the clock counts ticks, TicksPerSecond of them to a second.  A    *)
(* datetime is a number of ticks, a timedelta too.                         *)
(***************************************************************************)
\* calendar.timegm(d.utctimetuple()): the whole seconds of a datetime
timegm(d) == d \div TicksPerSecond

\* timedelta(minutes=m)
timedelta_minutes(m) == m * 60 * TicksPerSecond

(***************************************************************************)
(* jose.jwt.  A token is the sequence of its dot-separated segments; a     *)
(* segment is the set holding what it decodes to, empty when it does not   *)
(* decode.  The signature is the keyed digest of header and claims.        *)
(***************************************************************************)
SECRET_KEY == "dev-only-fallback-key-change-in-production"

ALGORITHM == "HS256"

ACCESS_TOKEN_EXPIRE_MINUTES == 30

\* HMAC of the signing input under a key
hmac_sign(key, header, claims) == [key |-> key, header |-> header, claims |-> claims]

\* jwt.encode(claims, key, algorithm): every claim given is encoded; "exp",
\* a datetime, becomes whole seconds ("iat" and "nbf" are given as numbers
\* or texts, which are kept)
jwt_encode(claims, key, algorithm) ==
    LET header == [typ |-> "JWT", alg |-> algorithm]
        body == [k \in DOMAIN claims |->
                     IF k = "exp" THEN timegm(claims[k]) ELSE claims[k]]
    IN  <<{header}, {body}, {hmac_sign(key, header, body)}>>

JWTError(detail) == [kind |-> "JWTError", prefix |-> "", detail |-> detail, value |-> {}]

\* variant: the expiry is not checked
validate_exp_Never(claims, t) == TRUE

\* jwt._validate_exp: nothing to check without "exp"; expired when
\* exp < now, both in whole seconds
validate_exp(claims, t) == "exp" \in DOMAIN claims => ~(claims.exp < timegm(t))

\* int(v), as jwt._validate_iat and jwt._validate_nbf call it on a claim: an
\* int is itself; None raises TypeError; a text is read without the white
\* space around it (the six ASCII characters space, \t, \n, \v, \f, \r, and
\* the white space beyond ASCII; U+001C to U+001F are not removed) as
\* decimal digits with at most one sign in front and single underscores
\* between digits, any other text raising ValueError
int(v) ==
    LET space == Whitespace \ {"", "", "", ""}
        inner == {i \in 1..Len(v) : v[i] \notin space}
        text == IF inner = {} THEN <<>>
                ELSE SubSeq(v, CHOOSE i \in inner : \A j \in inner : i <= j,
                               CHOOSE i \in inner : \A j \in inner : j <= i)
        signed == text # <<>> /\ text[1] \in {"+", "-"}
        body == IF signed THEN Tail(text) ELSE text
        digits == SelectSeq(body, LAMBDA c : c # "_")
    IN  IF v = PyNone
        THEN TypeError("int() argument must be a string, a bytes-like object or a real number, not 'NoneType'")
        ELSE IF v # <<>> /\ v[1] = "int"
        THEN Returned(DecimalValue(Tail(v)))
        ELSE IF /\ body # <<>>
                /\ \A i \in 1..Len(body) : body[i] \in Range(DigitSeq) \cup {"_"}
                /\ body[1] # "_" /\ body[Len(body)] # "_"
                /\ \A i \in 1..(Len(body) - 1) : ~(body[i] = "_" /\ body[i + 1] = "_")
        THEN Returned(IF signed /\ text[1] = "-" THEN 0 - DecimalValue(digits)
                                                ELSE DecimalValue(digits))
        ELSE ValueError("", "invalid literal for int() with base 10")

\* jwt._validate_claims with the options of jwt.decode as verify_token calls
\* it (no audience, issuer, subject or access_token): iat, nbf, exp, aud,
\* iss, sub, jti, at_hash in this order; the outcome of the first check that
\* fails.  Only ValueError of int() is turned into JWTClaimsError.
validate_claims(claims, t) ==
    LET iat == IF "iat" \in DOMAIN claims THEN int(claims.iat) ELSE Returned(0)
        nbf == IF "nbf" \in DOMAIN claims THEN int(claims.nbf) ELSE Returned(0)
    IN  IF iat.kind = "TypeError" THEN iat
        ELSE IF iat.kind = "ValueError"
        THEN JWTError("Issued At claim (iat) must be an integer.")
        ELSE IF nbf.kind = "TypeError" THEN nbf
        ELSE IF nbf.kind = "ValueError"
        THEN JWTError("Not Before claim (nbf) must be an integer.")
        ELSE IF "nbf" \in DOMAIN claims /\ \E n \in nbf.value : n > timegm(t)
        THEN JWTError("The token is not yet valid (nbf)")
        ELSE IF ~validate_exp(claims, t)
        THEN JWTError("Signature has expired.")
        ELSE IF "aud" \in DOMAIN claims
        THEN JWTError(IF isinstance_str(claims.aud) THEN "Invalid audience"
                                                    ELSE "Invalid claim format in token")
        ELSE IF "sub" \in DOMAIN claims /\ ~isinstance_str(claims.sub)
        THEN JWTError("Subject must be a string.")
        ELSE IF "jti" \in DOMAIN claims /\ ~isinstance_str(claims.jti)
        THEN JWTError("JWT ID must be a string.")
        ELSE IF "at_hash" \in DOMAIN claims
        THEN JWTError("No access_token provided to compare against at_hash claim.")
        ELSE Returned(claims)

\* variant: the signature is not checked
signature_ok_Any(token, key) == TRUE

\* jws._verify_signature
signature_ok(token, key) ==
    \E h \in token[1], c \in token[2] : token[3] = {hmac_sign(key, h, c)}

\* jwt.decode(token, key, algorithms) at time t
jwt_decode(token, key, algorithms, t) ==
    IF Len(token) # 3 \/ token[1] = {}
    THEN JWTError("Error decoding token headers.")
    ELSE IF \A h \in token[1] : h.alg \notin algorithms
    THEN JWTError("The specified alg value is not allowed")
    ELSE IF ~signature_ok(token, key)
    THEN JWTError("Signature verification failed.")
    ELSE IF token[2] = {}
    THEN JWTError("Invalid payload string")
    ELSE validate_claims(CHOOSE c \in token[2] : TRUE, t)

(***************************************************************************)
(* User.create_access_token and User.verify_token.                         *)
(***************************************************************************)
\* variant: the time to live is subtracted from the clock
expire_Subtracted(expires_delta, t) ==
    t - (IF expires_delta = {} \/ expires_delta = {0}
            THEN timedelta_minutes(ACCESS_TOKEN_EXPIRE_MINUTES)
            ELSE CHOOSE d \in expires_delta : TRUE)

\* "expires_delta or timedelta(...)": None and timedelta(0) both give the default
expire(expires_delta, t) ==
    t + (IF expires_delta = {} \/ expires_delta = {0}
            THEN timedelta_minutes(ACCESS_TOKEN_EXPIRE_MINUTES)
            ELSE CHOOSE d \in expires_delta : TRUE)

\* to_encode = data.copy(); to_encode.update({"exp": expire})
create_access_token(data, expires_delta, t) ==
    LET to_encode == [k \in DOMAIN data \cup {"exp"} |->
                          IF k = "exp" THEN expire(expires_delta, t) ELSE data[k]]
    IN  jwt_encode(to_encode, SECRET_KEY, ALGORITHM)

\* except JWTError: return None; any other exception leaves the call
verify_token(token, t) ==
    LET decoded == jwt_decode(token, SECRET_KEY, {ALGORITHM}, t)
    IN  IF decoded.kind = "JWTError"
        THEN [kind |-> "return", prefix |-> "", detail |-> "", value |-> {}]
        ELSE decoded

\* the claims a well-formed token carries
TokenClaims(token) == CHOOSE c \in token[2] : TRUE

(***************************************************************************)
(* State.                                                                  *)
(***************************************************************************)
VARIABLES
    users,       \* rows of table "users"
    calcs,       \* rows of table "calculations"
    tables,      \* the tables and the unique indexes that exist
    nextId,      \* the next fresh identifier
    now,         \* the clock
    opsStarted,  \* operations started so far
    pc,          \* position of each request handler, and of the administrator
                 \* in init_db and drop_db
    op,          \* the operation a handler runs
    args,        \* its arguments
    local,       \* its local variables: user_create and new_user in register, user
                 \* in authenticate and update_last_login, new_calc in create_calculation
    result,      \* its outcome
    exit,        \* the statement it left by
    client       \* the local variables of a caller that chains calls

vars == <<users, calcs, tables, nextId, now, opsStarted, pc, op, args, local, result, exit,
          client>>

Procs == {"p1", "p2"}

\* who runs init_db and drop_db
Admin == "admin"

\* the tables of Base.metadata
AllTables == {"users", "calculations"}

\* the indexes of users that are unique: unique=True, index=True on email
\* and username
UniqueIndexes == {"ix_users_email", "ix_users_username"}

\* raise IntegrityError (create_calculation does not catch it)
IntegrityError(detail) ==
    [kind |-> "IntegrityError", prefix |-> "", detail |-> detail, value |-> {}]

DUPLICATE_MESSAGE == "Username or email already exists"

STORAGE_ERROR == "storage error"

\* the caller before its first call
ClientStart ==
    [stage         |-> "start",
     data          |-> {},         \* claims given to create_access_token
     expires_delta |-> {},
     issued_at     |-> {},
     token         |-> {},         \* the token it holds
     presented     |-> {},         \* the token given to verify_token
     verified_at   |-> {},
     payload       |-> NoResult,   \* outcome of verify_token
     password      |-> {},         \* password given to hash_password
     account       |-> {},         \* a User object outside storage
     candidate     |-> {},         \* password given to verify_password
     checked       |-> NoResult,   \* outcome of verify_password
     user_data     |-> {},         \* data given to register
     was_free      |-> {},         \* were its username and email free at the call
     user          |-> NoResult,   \* outcome of register
     auth          |-> NoResult,   \* outcome of authenticate
     user_id       |-> {},         \* id given to get_user_by_id
     retrieved     |-> NoResult]   \* outcome of get_user_by_id

(***************************************************************************)
(* The rows.                                                               *)
(***************************************************************************)
\* cls(...) of register, lines 85-93, created_at read from the clock at
\* line 92; the columns with a default are not set yet (id 0: no id,
\* updated_at -1: no time)
NewUser(user_create, hashed_password, t) ==
    [id              |-> 0,
     first_name      |-> user_create.first_name,
     last_name       |-> user_create.last_name,
     email           |-> user_create.email,
     username        |-> user_create.username,
     hashed_password |-> hashed_password,
     is_verified     |-> FALSE,
     last_login      |-> {},
     created_at      |-> t,
     updated_at      |-> -1]

\* the row of an object at its INSERT: the defaults of id (uuid4) and
\* updated_at (the clock) are evaluated at the flush
InsertedUser(new_user, id, t) == [new_user EXCEPT !.id = id, !.updated_at = t]

\* the unique indexes of columns email and username, where they exist
UniqueViolation(row, rows, indexes) ==
    \E u \in rows : \/ "ix_users_username" \in indexes /\ u.username = row.username
                    \/ "ix_users_email" \in indexes /\ u.email = row.email

\* UserResponse.model_validate(user)
UserResponse(user) ==
    [id          |-> user.id,
     first_name  |-> user.first_name,
     last_name   |-> user.last_name,
     email       |-> user.email,
     username    |-> user.username,
     is_verified |-> user.is_verified,
     created_at  |-> user.created_at,
     updated_at  |-> user.updated_at]

(***************************************************************************)
(* User.get_user_by_id.                                                    *)
(***************************************************************************)
\* raise AttributeError
AttributeError(detail) ==
    [kind |-> "AttributeError", prefix |-> "", detail |-> detail, value |-> {}]

\* uuid.UUID(user_id): TypeError for None; AttributeError for an int and for
\* a UUID object, which have no method replace; ValueError for a text that
\* is not the prefix followed by digits; zeros in front of the digits are
\* read as part of the number
uuid_UUID(user_id) ==
    IF user_id = PyNone
    THEN TypeError("one of the hex, bytes, bytes_le, fields, or int arguments must be given")
    ELSE IF ~isinstance_str(user_id)
    THEN AttributeError("object has no attribute 'replace'")
    ELSE IF /\ Len(user_id) > Len(UuidPrefix)
            /\ SubSeq(user_id, 1, Len(UuidPrefix)) = UuidPrefix
            /\ \A i \in (Len(UuidPrefix) + 1)..Len(user_id) : user_id[i] \in Range(DigitSeq)
         THEN Returned(DecimalValue(SubSeq(user_id, Len(UuidPrefix) + 1, Len(user_id))))
         ELSE ValueError("", "badly formed hexadecimal UUID string")

\* except (ValueError, TypeError): return None; any other exception of
\* uuid.UUID leaves the call
get_user_by_id(rows, user_id) ==
    LET user_uuid == uuid_UUID(user_id)
    IN  IF user_uuid.kind \in {"ValueError", "TypeError"}
        THEN ReturnedNone
        ELSE IF user_uuid.kind # "return"
        THEN user_uuid
        ELSE IF \E u \in rows : {u.id} = user_uuid.value
        THEN Returned(CHOOSE u \in rows : {u.id} = user_uuid.value)
        ELSE ReturnedNone

\* variant: the filter is dropped
FindUser_NoFilter(rows, username, email) == rows

\* db.query(cls).filter((cls.username == x) | (cls.email == y))
FindUser(rows, username, email) ==
    {u \in rows : u.username = username \/ u.email = email}

\* UPDATE users SET last_login=..., updated_at=... WHERE id: last_login is
\* the value assigned to the object, updated_at (onupdate) is the clock at
\* the flush
SetLastLogin(rows, id, last_login, t) ==
    {IF u.id = id THEN [u EXCEPT !.last_login = {last_login}, !.updated_at = t] ELSE u :
         u \in rows}

\* raise OperationalError: the statement failed in the database (no table,
\* connection lost)
OperationalError(detail) ==
    [kind |-> "OperationalError", prefix |-> "", detail |-> detail, value |-> {}]

\* raise StaleDataError: the UPDATE of the flush matched no row
StaleDataError(detail) ==
    [kind |-> "StaleDataError", prefix |-> "", detail |-> detail, value |-> {}]

\* raise InvalidRequestError: db.refresh found no row for the object
InvalidRequestError(detail) ==
    [kind |-> "InvalidRequestError", prefix |-> "", detail |-> detail, value |-> {}]

NO_TABLE == "no such table"

NO_ROW == "Could not refresh instance"

STALE == "UPDATE statement on table 'users' expected to update 1 row(s); 0 were matched."

\* no rows, every handler idle, the given tables and indexes, and the
\* administrator at the given position
Start(schema, admin) ==
    /\ users = {}
    /\ calcs = {}
    /\ tables = schema
    /\ nextId = 1
    /\ now = 0
    /\ opsStarted = 0
    /\ pc = [p \in Procs \cup {Admin} |-> IF p = Admin THEN admin ELSE "idle"]
    /\ op = [p \in Procs |-> "none"]
    /\ args = [p \in Procs |-> {}]
    /\ local = [p \in Procs |-> {}]
    /\ result = [p \in Procs |-> NoResult]
    /\ exit = [p \in Procs |-> ""]
    /\ client = ClientStart

\* the database after init_db
Init == Start(AllTables \cup UniqueIndexes, "idle")

\* a handler finishes with an outcome
Finish(p, r, e) ==
    /\ pc' = [pc EXCEPT ![p] = "done"]
    /\ result' = [result EXCEPT ![p] = r]
    /\ exit' = [exit EXCEPT ![p] = e]

Begin(p, name, a) ==
    /\ pc[p] = "idle"
    /\ opsStarted < MaxOps
    /\ opsStarted' = opsStarted + 1
    /\ op' = [op EXCEPT ![p] = name]
    /\ args' = [args EXCEPT ![p] = a]

(***************************************************************************)
(* User.register.  Every statement that reads or writes storage or reads   *)
(* the clock is a step of its own: validation; the existence query; the    *)
(* hash and the object, with the clock read of created_at; add + commit;   *)
(* refresh.  An exception raised inside the try block is caught by the     *)
(* except clauses of lines 100-111.                                        *)
(***************************************************************************)
\* lines 70, 100-102
RegValidate(p, user_data) ==
    /\ Begin(p, "register", user_data)
    /\ IF UserCreateReason(user_data) # ""
          THEN /\ Finish(p, ValueError("Validation error: ", UserCreateReason(user_data)), "validation")
               /\ UNCHANGED local
          ELSE /\ pc' = [pc EXCEPT ![p] = "reg_check"]
               /\ local' = [local EXCEPT ![p] = {UserCreate(user_data)}]
               /\ UNCHANGED <<result, exit>>
    /\ UNCHANGED <<users, calcs, tables, nextId, now, client>>

\* lines 73-78; the ValueError raised at line 78, and the error of a query
\* on a dropped table, are caught at line 109
RegPreCheck(p) ==
    /\ pc[p] = "reg_check"
    /\ LET user_create == CHOOSE uc \in local[p] : TRUE
           existing_user == FindUser(users, user_create.username, user_create.email)
       IN  IF "users" \notin tables
              THEN Finish(p, ValueError("Registration failed: ", NO_TABLE), "query_error")
           ELSE IF existing_user # {}
              THEN Finish(p, ValueError("Registration failed: ", DUPLICATE_MESSAGE), "precheck")
              ELSE /\ pc' = [pc EXCEPT ![p] = "reg_build"]
                   /\ UNCHANGED <<result, exit>>
    /\ UNCHANGED <<users, calcs, tables, nextId, now, opsStarted, op, args, local, client>>

\* lines 81-93: the hash, and the object with created_at read from the clock
RegBuild(p, salt) ==
    /\ pc[p] = "reg_build"
    /\ LET user_create == CHOOSE uc \in local[p] : TRUE
           hashed_password == hash_password(user_create.password, salt)
       IN  local' = [local EXCEPT ![p] = {NewUser(user_create, hashed_password, now)}]
    /\ pc' = [pc EXCEPT ![p] = "reg_commit"]
    /\ UNCHANGED <<users, calcs, tables, nextId, now, opsStarted, op, args, result, exit, client>>

\* lines 95-96, 104-111; fault: the commit fails unexpectedly
RegCommit(p, fault) ==
    /\ pc[p] = "reg_commit"
    /\ LET new_user == CHOOSE u \in local[p] : TRUE
           row == InsertedUser(new_user, nextId, now)
       IN  IF "users" \notin tables
              THEN /\ Finish(p, ValueError("Registration failed: ", NO_TABLE), "commit_error")
                   /\ UNCHANGED <<users, nextId, local>>
           ELSE IF fault = "commit"
              THEN /\ Finish(p, ValueError("Registration failed: ", STORAGE_ERROR), "commit_error")
                   /\ UNCHANGED <<users, nextId, local>>
           ELSE IF UniqueViolation(row, users, tables)
              THEN /\ Finish(p, ValueError("", DUPLICATE_MESSAGE), "integrity")
                   /\ UNCHANGED <<users, nextId, local>>
           ELSE /\ users' = users \cup {row}
                /\ nextId' = nextId + 1
                /\ local' = [local EXCEPT ![p] = {row}]
                /\ pc' = [pc EXCEPT ![p] = "reg_refresh"]
                /\ UNCHANGED <<result, exit>>
    /\ UNCHANGED <<calcs, tables, now, opsStarted, op, args, client>>

\* lines 97-98, 109-111: the object is read again from its row; fault: the
\* refresh fails unexpectedly
RegRefresh(p, fault) ==
    /\ pc[p] = "reg_refresh"
    /\ LET new_user == CHOOSE u \in local[p] : TRUE
           rows == {u \in users : u.id = new_user.id}
       IN  IF "users" \notin tables
              THEN Finish(p, ValueError("Registration failed: ", NO_TABLE), "refresh_error")
           ELSE IF fault = "refresh"
              THEN Finish(p, ValueError("Registration failed: ", STORAGE_ERROR), "refresh_error")
           ELSE IF rows = {}
              THEN Finish(p, ValueError("Registration failed: ", NO_ROW), "refresh_error")
           ELSE Finish(p, Returned(CHOOSE u \in rows : TRUE), "return")
    /\ UNCHANGED <<users, calcs, tables, nextId, now, opsStarted, op, args, local, client>>

(***************************************************************************)
(* User.authenticate: the query and the password check; the clock read of  *)
(* last_login; the commit; the refresh; the response with its token.  An   *)
(* exception at any of them is caught at line 141 and None is returned.    *)
(***************************************************************************)
\* lines 118-124
AuthLookup(p, identifier, password) ==
    /\ Begin(p, "authenticate", [identifier |-> identifier, password |-> password])
    /\ LET found == FindUser(users, identifier, identifier)
       IN  IF "users" \notin tables
              THEN Finish(p, ReturnedNone, "query_error") /\ UNCHANGED local
           ELSE IF found = {}
              THEN Finish(p, ReturnedNone, "not_found") /\ UNCHANGED local
              ELSE \E user \in found :
                     IF verify_password(user, password) # Returned(TRUE)
                        THEN Finish(p, ReturnedNone, "bad_password") /\ UNCHANGED local
                        ELSE /\ pc' = [pc EXCEPT ![p] = "auth_set"]
                             /\ local' = [local EXCEPT ![p] = {user}]
                             /\ UNCHANGED <<result, exit>>
    /\ UNCHANGED <<users, calcs, tables, nextId, now, client>>

\* line 127
AuthSet(p) ==
    /\ pc[p] = "auth_set"
    /\ LET user == CHOOSE u \in local[p] : TRUE
       IN  local' = [local EXCEPT ![p] = {[user EXCEPT !.last_login = {now}]}]
    /\ pc' = [pc EXCEPT ![p] = "auth_commit"]
    /\ UNCHANGED <<users, calcs, tables, nextId, now, opsStarted, op, args, result, exit, client>>

\* lines 128, 141-145; fault: the commit fails unexpectedly
AuthCommit(p, fault) ==
    /\ pc[p] = "auth_commit"
    /\ LET user == CHOOSE u \in local[p] : TRUE
           last_login == CHOOSE t \in user.last_login : TRUE
       IN  IF "users" \notin tables \/ fault = "commit" \/ ~\E u \in users : u.id = user.id
              THEN Finish(p, ReturnedNone, "commit_error") /\ UNCHANGED users
              ELSE /\ users' = SetLastLogin(users, user.id, last_login, now)
                   /\ pc' = [pc EXCEPT ![p] = "auth_refresh"]
                   /\ UNCHANGED <<result, exit>>
    /\ UNCHANGED <<calcs, tables, nextId, now, opsStarted, op, args, local, client>>

\* lines 129, 141-145; fault: the refresh fails unexpectedly
AuthRefresh(p, fault) ==
    /\ pc[p] = "auth_refresh"
    /\ LET user == CHOOSE u \in local[p] : TRUE
           rows == {u \in users : u.id = user.id}
       IN  IF "users" \notin tables \/ fault = "response" \/ rows = {}
              THEN Finish(p, ReturnedNone, "response_error") /\ UNCHANGED local
              ELSE /\ local' = [local EXCEPT ![p] = rows]
                   /\ pc' = [pc EXCEPT ![p] = "auth_respond"]
                   /\ UNCHANGED <<result, exit>>
    /\ UNCHANGED <<users, calcs, tables, nextId, now, opsStarted, op, args, client>>

\* lines 132-139: create_access_token reads the clock
AuthRespond(p) ==
    /\ pc[p] = "auth_respond"
    /\ LET user == CHOOSE u \in local[p] : TRUE
           token == [access_token |-> create_access_token([sub |-> uuid_str(user.id)], {}, now),
                     token_type   |-> "bearer",
                     user         |-> UserResponse(user)]
       IN  Finish(p, Returned(token), "return")
    /\ UNCHANGED <<users, calcs, tables, nextId, now, opsStarted, op, args, local, client>>

(***************************************************************************)
(* User.update_last_login of a loaded account: the clock read of line 167, *)
(* then the commit of line 168, whose exceptions reach the caller.         *)
(***************************************************************************)
UpdateLastLogin(p, id) ==
    /\ Begin(p, "update_last_login", [id |-> id])
    /\ "users" \in tables
    /\ \E u \in users :
           /\ u.id = id
           /\ local' = [local EXCEPT ![p] = {[u EXCEPT !.last_login = {now}]}]
    /\ pc' = [pc EXCEPT ![p] = "login_commit"]
    /\ UNCHANGED <<users, calcs, tables, nextId, now, result, exit, client>>

UpdateLastLoginCommit(p) ==
    /\ pc[p] = "login_commit"
    /\ LET user == CHOOSE u \in local[p] : TRUE
           last_login == CHOOSE t \in user.last_login : TRUE
       IN  IF "users" \notin tables
              THEN Finish(p, OperationalError(NO_TABLE), "commit_error") /\ UNCHANGED users
           ELSE IF ~\E u \in users : u.id = user.id
              THEN Finish(p, StaleDataError(STALE), "commit_error") /\ UNCHANGED users
           ELSE /\ users' = SetLastLogin(users, user.id, last_login, now)
                /\ Finish(p, ReturnedNone, "return")
    /\ UNCHANGED <<calcs, tables, nextId, now, opsStarted, op, args, local, client>>

(***************************************************************************)
(* init_db and drop_db of app.database_init.  create_all looks up which    *)
(* tables are missing and issues, for each of them, users before           *)
(* calculations, which refers to it, one CREATE TABLE and then one CREATE   *)
(* INDEX for each index of the table; a table that exists is left as it    *)
(* is, its indexes too.  drop_all issues one DROP TABLE for each table,    *)
(* with its rows and indexes, calculations before users.  Each statement   *)
(* is a step (on SQLite, the engine of the tests, each is committed as it  *)
(* is issued), so a handler can find users without its unique indexes, or  *)
(* without calculations.  The indexes of first_name and last_name are not  *)
(* unique and have no effect on the rows: they are left out.               *)
(***************************************************************************)
InitDb ==
    /\ pc[Admin] = "idle"
    /\ opsStarted < MaxOps
    /\ opsStarted' = opsStarted + 1
    /\ tables' = tables \cup {"users"}
    /\ pc' = [pc EXCEPT ![Admin] = IF "users" \in tables THEN "create_calculations"
                                                        ELSE "create_indexes"]
    /\ UNCHANGED <<users, calcs, nextId, now, op, args, local, result, exit, client>>

\* CREATE UNIQUE INDEX ix ON users (column), in either order; over rows that
\* share a value of the column it fails with IntegrityError, which leaves
\* init_db: no later statement is issued
InitDbIndex(ix) ==
    /\ pc[Admin] = "create_indexes"
    /\ ix \in UniqueIndexes \ tables
    /\ IF \E u, v \in users :
              /\ u # v
              /\ IF ix = "ix_users_email" THEN u.email = v.email
                                          ELSE u.username = v.username
          THEN /\ pc' = [pc EXCEPT ![Admin] = "idle"]
               /\ UNCHANGED tables
          ELSE /\ tables' = tables \cup {ix}
               /\ pc' = [pc EXCEPT ![Admin] = IF UniqueIndexes \subseteq tables'
                                                 THEN "create_calculations"
                                                 ELSE "create_indexes"]
    /\ UNCHANGED <<users, calcs, nextId, now, opsStarted, op, args, local, result, exit, client>>

InitDbCalculations ==
    /\ pc[Admin] = "create_calculations"
    /\ tables' = tables \cup {"calculations"}
    /\ pc' = [pc EXCEPT ![Admin] = "idle"]
    /\ UNCHANGED <<users, calcs, nextId, now, opsStarted, op, args, local, result, exit, client>>

DropDb ==
    /\ pc[Admin] = "idle"
    /\ opsStarted < MaxOps
    /\ opsStarted' = opsStarted + 1
    /\ tables' = tables \ {"calculations"}
    /\ calcs' = {}
    /\ pc' = [pc EXCEPT ![Admin] = "drop_users"]
    /\ UNCHANGED <<users, nextId, now, op, args, local, result, exit, client>>

DropDbUsers ==
    /\ pc[Admin] = "drop_users"
    /\ tables' = tables \ ({"users"} \cup UniqueIndexes)
    /\ users' = {}
    /\ pc' = [pc EXCEPT ![Admin] = "idle"]
    /\ UNCHANGED <<calcs, nextId, now, opsStarted, op, args, local, result, exit, client>>

\* the caller takes the outcome; the handler is free again
Return(p) ==
    /\ pc[p] = "done"
    /\ pc' = [pc EXCEPT ![p] = "idle"]
    /\ op' = [op EXCEPT ![p] = "none"]
    /\ args' = [args EXCEPT ![p] = {}]
    /\ local' = [local EXCEPT ![p] = {}]
    /\ result' = [result EXCEPT ![p] = NoResult]
    /\ exit' = [exit EXCEPT ![p] = ""]
    /\ UNCHANGED <<users, calcs, nextId, tables, now, opsStarted, client>>

\* the clock advances, up to a limit
Tick(limit) ==
    /\ now < limit
    /\ now' = now + 1
    /\ UNCHANGED <<users, calcs, tables, nextId, opsStarted, pc, op, args, local, result, exit, client>>

(***************************************************************************)
(* The calculation service.  Operands are integers; a result is the        *)
(* fraction n/d in lowest terms with d > 0.                                *)
(***************************************************************************)
RECURSIVE Gcd(_, _)
Gcd(a, b) == IF b = 0 THEN a ELSE Gcd(b, a % b)

Abs(a) == IF a < 0 THEN -a ELSE a

Fraction(n, d) ==
    LET g == Gcd(Abs(n), Abs(d))
        sign == IF d < 0 THEN -1 ELSE 1
    IN  [n |-> sign * (n \div g), d |-> sign * (d \div g)]

CalculationType == {"Add", "Sub", "Multiply", "Divide"}

\* variant: the division is not validated
validate_division_Never(payload) == ""

\* CalculationCreate.validate_division
validate_division(payload) ==
    IF payload.type = "Divide" /\ payload.b = 0 THEN "Cannot divide by zero." ELSE ""

\* CalculationCreate(**values): the fields a, b and type are read, the type is
\* a member of the enum, then validate_division
CalculationCreate(values) ==
    IF values.type \notin CalculationType
    THEN ValueError("Input should be ", "'Add', 'Sub', 'Multiply' or 'Divide'")
    ELSE IF validate_division(values) # ""
    THEN ValueError("Value error, ", validate_division(values))
    ELSE Returned([a |-> values.a, b |-> values.b, type |-> values.type])

\* app.operations: add, subtract, multiply, divide
add(a, b) == Returned(Fraction(a + b, 1))

subtract(a, b) == Returned(Fraction(a - b, 1))

multiply(a, b) == Returned(Fraction(a * b, 1))

divide(a, b) ==
    IF b = 0 THEN ValueError("", "Cannot divide by zero.") ELSE Returned(Fraction(a, b))

\* the strategy objects, by class
Strategy(class) == [class |-> class]

\* variant: Sub delegates to add
strategy_compute_SubAdds(strategy, a, b) ==
    CASE strategy.class = "Add"      -> add(a, b)
      [] strategy.class = "Sub"      -> add(a, b)
      [] strategy.class = "Multiply" -> multiply(a, b)
      [] strategy.class = "Divide"   -> divide(a, b)

\* Add.compute, Sub.compute, Multiply.compute, Divide.compute
strategy_compute(strategy, a, b) ==
    CASE strategy.class = "Add"      -> add(a, b)
      [] strategy.class = "Sub"      -> subtract(a, b)
      [] strategy.class = "Multiply" -> multiply(a, b)
      [] strategy.class = "Divide"   -> divide(a, b)

\* variant: the case of MULTIPLY returns Divide()
get_strategy_MultiplyDivides(calc_type) ==
    CASE calc_type = "Add"      -> Returned(Strategy("Add"))
      [] calc_type = "Sub"      -> Returned(Strategy("Sub"))
      [] calc_type = "Multiply" -> Returned(Strategy("Divide"))
      [] calc_type = "Divide"   -> Returned(Strategy("Divide"))
      [] OTHER -> ValueError("Unsupported calculation type: ", calc_type)

\* CalculationFactory.get_strategy
get_strategy(calc_type) ==
    CASE calc_type = "Add"      -> Returned(Strategy("Add"))
      [] calc_type = "Sub"      -> Returned(Strategy("Sub"))
      [] calc_type = "Multiply" -> Returned(Strategy("Multiply"))
      [] calc_type = "Divide"   -> Returned(Strategy("Divide"))
      [] OTHER -> ValueError("Unsupported calculation type: ", calc_type)

\* CalculationFactory.get_strategy followed by strategy.compute
compute(type, a, b) ==
    LET strategy == get_strategy(type)
    IN  IF strategy.kind # "return" THEN strategy
        ELSE strategy_compute(CHOOSE s \in strategy.value : TRUE, a, b)

\* variant: the operands are stored in the other order
NewCalculation_Swapped(payload, res, user_id, id, t) ==
    [id |-> id, a |-> payload.b, b |-> payload.a, type |-> payload.type,
     result |-> res, user_id |-> user_id, created_at |-> t, updated_at |-> t]

NewCalculation(payload, res, user_id, id, t) ==
    [id |-> id, a |-> payload.a, b |-> payload.b, type |-> payload.type,
     result |-> res, user_id |-> user_id, created_at |-> t, updated_at |-> t]

\* variant: the insert replaces the rows of the table
InsertCalculation_Replace(rows, new_calc) == {new_calc}

\* db.add(new_calc); db.commit()
InsertCalculation(rows, new_calc) == rows \cup {new_calc}

\* create_calculation, lines 9-22; an exception of compute leaves the function
\* before the record is made; no exception is caught.  foreign_keys: does
\* the engine of settings.DATABASE_URL check the foreign key of user_id at
\* the commit (PostgreSQL does; SQLite does not unless PRAGMA foreign_keys is
\* set, which no code of the repository does).  fault: the commit fails
\* unexpectedly
CreateCalculation(p, payload, user_id, foreign_keys, fault) ==
    /\ Begin(p, "create_calculation", [payload |-> payload, user_id |-> user_id])
    /\ LET strategy_result == compute(payload.type, payload.a, payload.b)
       IN  IF strategy_result.kind # "return"
              THEN /\ Finish(p, strategy_result, "compute_error")
                   /\ UNCHANGED <<calcs, nextId, local>>
              ELSE LET res == CHOOSE r \in strategy_result.value : TRUE
                       new_calc == NewCalculation(payload, res, user_id, nextId, now)
                   IN  IF "calculations" \notin tables
                          THEN /\ Finish(p, OperationalError(NO_TABLE), "commit_error")
                               /\ UNCHANGED <<calcs, nextId, local>>
                       ELSE IF fault = "commit"
                          THEN /\ Finish(p, OperationalError(STORAGE_ERROR), "commit_error")
                               /\ UNCHANGED <<calcs, nextId, local>>
                       ELSE IF foreign_keys /\ ~\E u \in users : u.id = user_id
                          THEN /\ Finish(p, IntegrityError("foreign key"), "integrity")
                               /\ UNCHANGED <<calcs, nextId, local>>
                          ELSE /\ calcs' = InsertCalculation(calcs, new_calc)
                               /\ nextId' = nextId + 1
                               /\ local' = [local EXCEPT ![p] = {new_calc}]
                               /\ pc' = [pc EXCEPT ![p] = "calc_refresh"]
                               /\ UNCHANGED <<result, exit>>
    /\ UNCHANGED <<users, tables, now, client>>

\* create_calculation, lines 23-24: the record is read again from its row;
\* fault: the refresh fails unexpectedly
CalcRefresh(p, fault) ==
    /\ pc[p] = "calc_refresh"
    /\ LET new_calc == CHOOSE c \in local[p] : TRUE
           rows == {c \in calcs : c.id = new_calc.id}
       IN  IF "calculations" \notin tables
              THEN Finish(p, OperationalError(NO_TABLE), "refresh_error")
           ELSE IF fault = "refresh"
              THEN Finish(p, OperationalError(STORAGE_ERROR), "refresh_error")
           ELSE IF rows = {}
              THEN Finish(p, InvalidRequestError(NO_ROW), "refresh_error")
           ELSE Finish(p, Returned(CHOOSE c \in rows : TRUE), "return")
    /\ UNCHANGED <<users, calcs, tables, nextId, now, opsStarted, op, args, local, client>>

(***************************************************************************)
(* A UserCreate object made by a caller of the schema.  model_config sets  *)
(* no "extra", so a field the schema does not define is left out of the    *)
(* validated object and is no error.                                       *)
(***************************************************************************)
UserCreateOutcome(values) ==
    IF UserCreateReason(values) # ""
    THEN [kind |-> "ValidationError", prefix |-> "",
          detail |-> UserCreateReason(values), value |-> {}]
    ELSE Returned(UserCreate(values))

ConstructUser(p, values) ==
    /\ Begin(p, "UserCreate", values)
    /\ Finish(p, UserCreateOutcome(values),
              IF UserCreateOutcome(values).kind = "return" THEN "return" ELSE "validation")
    /\ UNCHANGED <<users, calcs, nextId, tables, now, local, client>>

(***************************************************************************)
(* get_current_user of app.auth.dependencies.                              *)
(***************************************************************************)
\* HTTPException(status_code=401, detail="Could not validate credentials")
credentials_exception ==
    [kind |-> "HTTPException", prefix |-> "401",
     detail |-> "Could not validate credentials", value |-> {}]

StatementError(detail) ==
    [kind |-> "StatementError", prefix |-> "", detail |-> detail, value |-> {}]

\* str() of the dict that verify_token returns
str_dict(d) ==
    <<"{", "'", "s", "u", "b", "'", ":", " ", "'">> \o d.sub
        \o <<"'", ",", " ", "'", "e", "x", "p", "'", ":", " ">> \o Decimal(d.exp) \o <<"}">>

\* how the dialect binds a value compared with the UUID column: by its .hex,
\* or by its text
BindProcessors == {"hex", "text"}

\* db.query(User).filter(User.id == user_id).first(), where user_id is the
\* dict that verify_token returned: a dict has no .hex, and its text is the
\* text of no id
first_by_id(rows, user_id, bind_processor) ==
    IF bind_processor = "hex"
    THEN StatementError("'dict' object has no attribute 'hex'")
    ELSE [kind |-> "return", prefix |-> "", detail |-> "",
          value |-> {u \in rows : uuid_str(u.id) = str_dict(user_id)}]

\* lines 22-24: verify_token reads the clock; an exception of verify_token
\* leaves the call, and a rejected token ends it with the 401 error
GetCurrentUser(p, token) ==
    /\ Begin(p, "get_current_user", [token |-> token])
    /\ LET user_id == verify_token(token, now)
       IN  IF user_id.kind # "return"
              THEN Finish(p, user_id, "verify_error") /\ UNCHANGED local
           ELSE IF user_id.value = {}
              THEN Finish(p, credentials_exception, "invalid_token") /\ UNCHANGED local
              ELSE /\ local' = [local EXCEPT ![p] = user_id.value]
                   /\ pc' = [pc EXCEPT ![p] = "current_query"]
                   /\ UNCHANGED <<result, exit>>
    /\ UNCHANGED <<users, calcs, tables, nextId, now, client>>

\* lines 26-30: the query; its errors are not caught
CurrentUserQuery(p, bind_processor) ==
    /\ pc[p] = "current_query"
    /\ LET user_id == CHOOSE v \in local[p] : TRUE
           user == first_by_id(users, user_id, bind_processor)
       IN  IF user.kind # "return"
              THEN Finish(p, user, "query_error")
           ELSE IF "users" \notin tables
              THEN Finish(p, OperationalError(NO_TABLE), "query_error")
           ELSE IF user.value = {}
              THEN Finish(p, credentials_exception, "not_found")
           ELSE Finish(p, Returned(UserResponse(CHOOSE u \in user.value : TRUE)), "return")
    /\ UNCHANGED <<users, calcs, tables, nextId, now, opsStarted, op, args, local, client>>

\* CalculationCreate(**values), by the caller of create_calculation
ConstructCalculation(p, values) ==
    /\ Begin(p, "CalculationCreate", values)
    /\ Finish(p, CalculationCreate(values),
              IF CalculationCreate(values).kind = "return" THEN "return" ELSE "validation")
    /\ UNCHANGED <<users, calcs, nextId, tables, now, local, client>>

\* CalculationFactory.get_strategy(calc_type)
GetStrategy(p, calc_type) ==
    /\ Begin(p, "get_strategy", [type |-> calc_type])
    /\ Finish(p, get_strategy(calc_type),
              IF get_strategy(calc_type).kind = "return" THEN "return" ELSE "unsupported")
    /\ UNCHANGED <<users, calcs, nextId, tables, now, local, client>>

\* strategy.compute(a, b)
Compute(p, strategy, a, b) ==
    /\ Begin(p, "compute", [strategy |-> strategy, a |-> a, b |-> b])
    /\ Finish(p, strategy_compute(strategy, a, b),
              IF strategy_compute(strategy, a, b).kind = "return" THEN "return" ELSE "raise")
    /\ UNCHANGED <<users, calcs, nextId, tables, now, local, client>>

(***************************************************************************)
(* A caller of the token functions: it has a token issued, then presents   *)
(* that token, or one made from it, to verify_token at any later time.     *)
(***************************************************************************)
IssueToken(data, expires_delta) ==
    /\ client.stage = "start"
    /\ client' = [client EXCEPT !.stage = "issued",
                                !.data = {data},
                                !.expires_delta = expires_delta,
                                !.issued_at = {now},
                                !.token = {create_access_token(data, expires_delta, now)}]
    /\ UNCHANGED <<users, calcs, nextId, tables, now, opsStarted, pc, op, args, local, result, exit>>

VerifyToken(token) ==
    /\ client.stage \in {"issued", "authenticated", "verified"}
    /\ client' = [client EXCEPT !.stage = "verified",
                                !.presented = {token},
                                !.verified_at = {now},
                                !.payload = verify_token(token, now)]
    /\ UNCHANGED <<users, calcs, nextId, tables, now, opsStarted, pc, op, args, local, result, exit>>

(***************************************************************************)
(* A caller of the password functions: it makes a User object, with the    *)
(* hash of a password or with no hash, and has passwords verified.         *)
(***************************************************************************)
HashPassword(password, salt) ==
    /\ client.stage = "start"
    /\ client' = [client EXCEPT !.stage = "hashed",
                                !.password = {password},
                                !.account = {[hashed_password |-> hash_password(password, salt)]}]
    /\ UNCHANGED <<users, calcs, nextId, tables, now, opsStarted, pc, op, args, local, result, exit>>

\* User() whose hashed_password is not a str
NewAccount(hashed_password) ==
    /\ client.stage = "start"
    /\ client' = [client EXCEPT !.stage = "hashed",
                                !.account = {[hashed_password |-> hashed_password]}]
    /\ UNCHANGED <<users, calcs, nextId, tables, now, opsStarted, pc, op, args, local, result, exit>>

VerifyPassword(password) ==
    /\ client.stage \in {"hashed", "checked"}
    /\ \E user \in client.account :
           client' = [client EXCEPT !.stage = "checked",
                                    !.candidate = {password},
                                    !.checked = verify_password(user, password)]
    /\ UNCHANGED <<users, calcs, nextId, tables, now, opsStarted, pc, op, args, local, result, exit>>

(***************************************************************************)
(* A caller that chains the calls of test_complete_user_workflow: register,*)
(* authenticate with the same username and password, verify_token of the   *)
(* access token, get_user_by_id of its subject.  It notes, before calling  *)
(* register, whether the username and email are free.                      *)
(***************************************************************************)
CallRegister(user_data) ==
    /\ client.stage = "start"
    /\ pc["p1"] = "idle"
    /\ LET user_create == UserCreate(user_data)
       IN  client' = [client EXCEPT
               !.stage = "register",
               !.user_data = {user_data},
               !.was_free = {FindUser(users, user_create.username, user_create.email) = {}}]
    /\ UNCHANGED <<users, calcs, nextId, tables, now, opsStarted, pc, op, args, local, result, exit>>

\* user = User.register(db_session, user_data)
TakeUser ==
    /\ client.stage = "register"
    /\ pc["p1"] = "done"
    /\ client' = [client EXCEPT !.stage = "registered", !.user = result["p1"]]
    /\ UNCHANGED <<users, calcs, nextId, tables, now, opsStarted, pc, op, args, local, result, exit>>

CallAuthenticate ==
    /\ client.stage = "registered"
    /\ pc["p1"] = "idle"
    /\ client.user.value # {}
    /\ client' = [client EXCEPT !.stage = "authenticate"]
    /\ UNCHANGED <<users, calcs, nextId, tables, now, opsStarted, pc, op, args, local, result, exit>>

\* auth_result = User.authenticate(...); token = auth_result["access_token"]
TakeAuth ==
    /\ client.stage = "authenticate"
    /\ pc["p1"] = "done"
    /\ client' = [client EXCEPT !.stage = "authenticated",
                                !.auth = result["p1"],
                                !.token = {r.access_token : r \in result["p1"].value}]
    /\ UNCHANGED <<users, calcs, nextId, tables, now, opsStarted, pc, op, args, local, result, exit>>

\* User.get_user_by_id(db_session, user_id): a query, in one step; the error
\* of a query on a dropped table is not caught
LookupById(user_id) ==
    /\ client.stage \in {"start", "verified"}
    /\ client' = [client EXCEPT
           !.stage = IF client.stage = "verified" THEN "retrieved" ELSE "start",
           !.user_id = {user_id},
           !.retrieved = IF uuid_UUID(user_id).kind = "return" /\ "users" \notin tables
                         THEN OperationalError(NO_TABLE)
                         ELSE get_user_by_id(users, user_id)]
    /\ UNCHANGED <<users, calcs, nextId, tables, now, opsStarted, pc, op, args, local, result, exit>>

(***************************************************************************)
(* The requests.                                                           *)
(***************************************************************************)
UserData(first_name, last_name, email, username, password) ==
    [first_name |-> first_name, last_name |-> last_name, email |-> email,
     username |-> username, password |-> password, has_password |-> TRUE]

ValidData(email, username) == UserData(N_John, N_Doe, email, username, PW_SecurePass)

\* registrations of the concurrent specification: the first shares its email
\* (once normalised) with the third and its username with the second
CoreRegInputs ==
    {ValidData(E_annPrettyUp, U_ann), ValidData(E_bob, U_ann), ValidData(E_ann, U_bob)}

Passwords ==
    {PW_short, PW_NoDigitsHere, PW_12345678, PW_lowercase1, PW_UPPERCASE1,
     PW_Password123, PW_SecurePass, PW_Wrong, PW_Min8, PW_Len7, PW_a128, PW_a129,
     PW_Max128, PW_Len129, PW_Tilde, PW_SuperDigit, PW_UpperLatin, PW_LowerLatin}

\* registrations of the sequential specification: every password, and every
\* field at and beyond its limits
SeqRegInputs ==
    {UserData(N_John, N_Doe, E_ann, U_ann, pw) : pw \in Passwords}
    \cup {[UserData(N_John, N_Doe, E_ann, U_ann, <<>>) EXCEPT !.has_password = FALSE]}
    \cup {UserData(n, N_Doe, E_ann, U_ann, PW_SecurePass) : n \in {N_Empty, N_Len50, N_Len51}}
    \cup {UserData(N_John, n, E_ann, U_ann, PW_SecurePass) : n \in {N_Empty, N_Len50, N_Len51}}
    \cup {UserData(N_John, N_Doe, E_ann, u, PW_SecurePass) : u \in {U_al, U_a_b, U_Len50, U_Len51, U_jose, U_ab2}}
    \cup {UserData(N_John, N_Doe, E_bad, U_ann, PW_SecurePass),
          UserData(N_Empty, N_Doe, E_bad, U_al, PW_short)}
    \cup {ValidData(e, U_ann) : e \in {E_annLead, E_annTrail, E_annPretty, E_annUp, E_annOpen,
                                         E_annQuoted, E_annLineFeed, E_annFormFeed,
                                         E_annNoBreak, E_annJose}}
    \cup {ValidData(E_bob, U_bob)}
    \cup CoreRegInputs

Identifiers == {U_ann, E_ann, E_annUp, U_zed}

\* identifiers and account ids of the concurrent specification
CoreIdentifiers == {U_ann, E_ann}

CoreIds == {1, 2}

LoginPasswords == {PW_SecurePass, PW_Wrong}

\* claims given to create_access_token: str subjects and an int subject
S_test_user_id == <<"t", "e", "s", "t", "-", "u", "s", "e", "r", "-", "i", "d">>

\* claims given to create_access_token: a subject alone (a text, the str of
\* an id, an int), and a text subject with one more claim: each registered
\* claim that jwt.decode checks, in a form it accepts where there is one and
\* in a form it refuses; an "exp" and a claim of the caller's own
TokenData ==
    {[sub |-> S_test_user_id], [sub |-> uuid_str(1)], [sub |-> PyInt(123)],
     [sub |-> S_test_user_id, aud |-> <<"a", "p", "i">>],
     [sub |-> S_test_user_id, nbf |-> PyInt(1)],
     [sub |-> S_test_user_id, nbf |-> <<"s", "o", "o", "n">>],
     [sub |-> S_test_user_id, nbf |-> PyNone],
     [sub |-> S_test_user_id, iat |-> <<" ", "+", "0", "1">>],
     [sub |-> S_test_user_id, iat |-> <<"n", "o", "w">>],
     [sub |-> S_test_user_id, iat |-> <<"1", "_", "0">>],
     [sub |-> S_test_user_id, iat |-> PyNone],
     [sub |-> S_test_user_id, jti |-> <<"j", "1">>],
     [sub |-> S_test_user_id, jti |-> PyInt(7)],
     [sub |-> S_test_user_id, at_hash |-> <<"h">>],
     [sub |-> S_test_user_id, exp |-> 0, role |-> <<"a", "d", "m", "i", "n">>]}

\* expires_delta: None, timedelta(0), and a few ticks either way
ExpiresDeltas == {{}} \cup {{d} : d \in -3..3}

\* tokens made from a token without the server's key
OTHER_KEY == "not-the-server-key"

AlterSubject(token, sub) ==
    <<token[1], {[c EXCEPT !.sub = sub] : c \in token[2]}, token[3]>>

AlterExpiry(token, seconds) ==
    <<token[1], {[c EXCEPT !.exp = c.exp + seconds] : c \in token[2]}, token[3]>>

Resign(token, key) ==
    <<token[1], token[2], {hmac_sign(key, h, c) : h \in token[1], c \in token[2]}>>

Unsigned(token) ==
    <<{[h EXCEPT !.alg = "none"] : h \in token[1]}, token[2], {}>>

\* "invalid.token.here", "this.is.not.a.valid.token", ""
MalformedTokens == {<<{}, {}, {}>>, <<{}, {}, {}, {}, {}, {}>>, <<{}>>}

Presentable(token) ==
    {token, AlterSubject(token, uuid_str(2)), AlterExpiry(token, 3600),
     Resign(token, OTHER_KEY), Resign(AlterExpiry(token, 3600), OTHER_KEY),
     Unsigned(token)} \cup MalformedTokens

\* passwords given to hash_password and verify_password: those of the register
\* tests, and passwords at and beyond the 72 bytes bcrypt reads
HashPasswords == Passwords \cup {PW_Len72, PW_Len73, PW_Len73b, PW_Len71e, PW_Len72e, PW_Len72u}

\* ids given to get_user_by_id: str(id) of ids in and beyond storage, the
\* same with a zero in front, texts that are no id, None, an int, and the
\* UUID object of an id (the id attribute of an account, not its str)
S_not_a_valid_uuid == <<"n", "o", "t", "-", "a", "-", "v", "a", "l", "i", "d", "-",
                        "u", "u", "i", "d">>

UserIds ==
    {uuid_str(n) : n \in 1..(MaxOps + 1)}
    \cup {UuidPrefix \o <<"0">> \o Decimal(n) : n \in 1..(MaxOps + 1)}
    \cup {S_not_a_valid_uuid, UuidPrefix, <<>>, PyNone, PyInt(123), PyUuid(1)}

\* valid registrations of the chained calls
FlowRegInputs == {ValidData(E_ann, U_ann), ValidData(E_bob, U_bob), ValidData(E_annUp, U_ann)}

\* values given to CalculationCreate: every kind and a value that is no kind,
\* with a zero and a non-zero second operand, without and with a "result" of
\* the caller (a field the schema does not have)
CalcRequests ==
    {[a |-> a, b |-> b, type |-> ty, result |-> r] :
        a \in {10, -3, 0}, b \in {2, 0}, ty \in CalculationType \cup {"FakeType"},
        r \in {{}, {[n |-> 999, d |-> 1]}}}

\* the CalculationCreate instances made of them
AcceptedPayloads == UNION {CalculationCreate(values).value : values \in CalcRequests}

\* payloads that were not made by CalculationCreate(...): a Divide by zero and
\* a type that is no kind
UnvalidatedPayloads ==
    {[a |-> 10, b |-> 0, type |-> "Divide"], [a |-> 10, b |-> 2, type |-> "FakeType"]}

\* operands given to the strategies
Operands == {-3, 0, 2, 5, 10}

RegFaults == {"none", "commit", "refresh"}

AuthFaults == {"none", "commit", "response"}

CalcFaults == {"none", "commit", "refresh"}

\* an engine that checks foreign keys, and one that does not
ForeignKeys == BOOLEAN

(***************************************************************************)
(* Spec: the account handlers (register, authenticate, update_last_login)  *)
(* of Procs run concurrently, step by step, with the statements of drop_db *)
(* and init_db between their steps; the clock advances up to MaxRaceTime.  *)
(* The salt has no part in the interleaving: one salt here, every salt in  *)
(* SpecSeq.  create_calculation writes table calculations only, which no   *)
(* account handler reads; it runs in SpecCalc and SpecCreate.              *)
(***************************************************************************)
Next ==
    \/ \E p \in Procs, d \in CoreRegInputs : RegValidate(p, d)
    \/ \E p \in Procs : RegPreCheck(p)
    \/ \E p \in Procs : RegBuild(p, "salt1")
    \/ \E p \in Procs, fault \in RegFaults : RegCommit(p, fault)
    \/ \E p \in Procs, fault \in RegFaults : RegRefresh(p, fault)
    \/ \E p \in Procs, i \in CoreIdentifiers, pw \in LoginPasswords : AuthLookup(p, i, pw)
    \/ \E p \in Procs : AuthSet(p)
    \/ \E p \in Procs, fault \in AuthFaults : AuthCommit(p, fault)
    \/ \E p \in Procs, fault \in AuthFaults : AuthRefresh(p, fault)
    \/ \E p \in Procs : AuthRespond(p)
    \/ \E p \in Procs, id \in CoreIds : UpdateLastLogin(p, id)
    \/ \E p \in Procs : UpdateLastLoginCommit(p)
    \/ \E p \in Procs : Return(p)
    \/ InitDb
    \/ \E ix \in UniqueIndexes : InitDbIndex(ix)
    \/ InitDbCalculations
    \/ DropDb
    \/ DropDbUsers
    \/ Tick(MaxRaceTime)

Spec == Init /\ [][Next]_vars

(***************************************************************************)
(* SpecSeq: one request at a time, with the wide set of registrations; the *)
(* clock runs up to MaxRaceTime.                                           *)
(***************************************************************************)
NextSeq ==
    \/ \E d \in SeqRegInputs : RegValidate("p1", d)
    \/ RegPreCheck("p1")
    \/ \E salt \in Salts : RegBuild("p1", salt)
    \/ \E fault \in RegFaults : RegCommit("p1", fault)
    \/ \E fault \in RegFaults : RegRefresh("p1", fault)
    \/ \E i \in Identifiers, pw \in LoginPasswords : AuthLookup("p1", i, pw)
    \/ AuthSet("p1")
    \/ \E fault \in AuthFaults : AuthCommit("p1", fault)
    \/ \E fault \in AuthFaults : AuthRefresh("p1", fault)
    \/ AuthRespond("p1")
    \/ Return("p1")
    \/ InitDb
    \/ \E ix \in UniqueIndexes : InitDbIndex(ix)
    \/ InitDbCalculations
    \/ DropDb
    \/ DropDbUsers
    \/ Tick(MaxRaceTime)

SpecSeq == Init /\ [][NextSeq]_vars

(***************************************************************************)
(* SpecToken: a token is issued and presented to verify_token as the       *)
(* clock advances.                                                         *)
(***************************************************************************)
NextToken ==
    \/ \E d \in TokenData, delta \in ExpiresDeltas : IssueToken(d, delta)
    \/ \E held \in client.token : \E token \in Presentable(held) : VerifyToken(token)
    \/ Tick(MaxTime)

SpecToken == Init /\ [][NextToken]_vars

(***************************************************************************)
(* SpecHash: a password is hashed and passwords are verified against it.   *)
(***************************************************************************)
NextHash ==
    \/ \E pw \in HashPasswords, salt \in Salts : HashPassword(pw, salt)
    \/ \E h \in {PyNone, PyInt(0)} : NewAccount(h)
    \/ \E pw \in HashPasswords : VerifyPassword(pw)

SpecHash == Init /\ [][NextHash]_vars

(***************************************************************************)
(* SpecFlow: one caller, one handler, storage that does not fail.  The     *)
(* caller registers accounts and looks ids up, then runs the chain.        *)
(***************************************************************************)
NextFlow ==
    \/ client.stage = "start" /\ \E d \in CoreRegInputs : RegValidate("p1", d)
    \/ RegPreCheck("p1")
    \/ \E salt \in Salts : RegBuild("p1", salt)
    \/ RegCommit("p1", "none")
    \/ RegRefresh("p1", "none")
    \/ client.stage \notin {"register", "authenticate"} /\ Return("p1")
    \/ \E id \in UserIds : client.stage = "start" /\ LookupById(id)
    \/ \E d \in FlowRegInputs : CallRegister(d)
    \/ client.stage = "register" /\ \E d \in client.user_data : RegValidate("p1", d)
    \/ TakeUser
    \/ CallAuthenticate
    \/ client.stage = "authenticate"
           /\ \E d \in client.user_data : AuthLookup("p1", d.username, d.password)
    \/ AuthSet("p1")
    \/ AuthCommit("p1", "none")
    \/ AuthRefresh("p1", "none")
    \/ AuthRespond("p1")
    \/ TakeAuth
    \/ client.stage = "authenticated" /\ \E token \in client.token : VerifyToken(token)
    \/ client.stage = "verified"
           /\ \E claims \in client.payload.value : LookupById(claims.sub)
    \/ Tick(MaxTime)

SpecFlow == Init /\ [][NextFlow]_vars

(***************************************************************************)
(* SpecCalc: one handler; an account is registered, calculation requests   *)
(* are constructed and created, for a stored and for an unknown account,   *)
(* on an engine that checks foreign keys and on one that does not;         *)
(* strategies are fetched and applied.  Storage does not fail.             *)
(***************************************************************************)
NextCalc ==
    \/ RegValidate("p1", ValidData(E_ann, U_ann))
    \/ RegPreCheck("p1")
    \/ RegBuild("p1", "salt1")
    \/ RegCommit("p1", "none")
    \/ RegRefresh("p1", "none")
    \/ \E values \in CalcRequests : ConstructCalculation("p1", values)
    \/ \E pl \in {v \in AcceptedPayloads : v.a = 10}, id \in CoreIds, fk \in ForeignKeys :
           CreateCalculation("p1", pl, id, fk, "none")
    \/ CalcRefresh("p1", "none")
    \/ \E ty \in CalculationType \cup {"FakeType"} : GetStrategy("p1", ty)
    \/ \E c \in CalculationType, a \in Operands, b \in Operands :
           Compute("p1", Strategy(c), a, b)
    \/ Return("p1")

SpecCalc == Init /\ [][NextCalc]_vars

(***************************************************************************)
(* SpecCreate: create_calculation is called with validated payloads and    *)
(* with payloads that skipped validation, for stored and unknown accounts, *)
(* on an engine that checks foreign keys and on one that does not, with    *)
(* storage failures and the statements of drop_db and init_db in between.  *)
(***************************************************************************)
NextCreate ==
    \/ \E d \in {ValidData(E_ann, U_ann), ValidData(E_bob, U_bob)} : RegValidate("p1", d)
    \/ RegPreCheck("p1")
    \/ RegBuild("p1", "salt1")
    \/ RegCommit("p1", "none")
    \/ RegRefresh("p1", "none")
    \/ \E pl \in {v \in AcceptedPayloads : v.a = 10} \cup UnvalidatedPayloads,
          id \in CoreIds, fk \in ForeignKeys, fault \in CalcFaults :
           CreateCalculation("p1", pl, id, fk, fault)
    \/ \E fault \in CalcFaults : CalcRefresh("p1", fault)
    \/ Return("p1")
    \/ InitDb
    \/ \E ix \in UniqueIndexes : InitDbIndex(ix)
    \/ InitDbCalculations
    \/ DropDb
    \/ DropDbUsers

SpecCreate == Init /\ [][NextCreate]_vars

(***************************************************************************)
(* SpecCurrent: handler p1 registers an account and authenticates it; a    *)
(* caller issues tokens of its own; handler p2 serves get_current_user for *)
(* the token authenticate returned, the caller's token, or one made from   *)
(* either.                                                                 *)
(***************************************************************************)
AuthTokens ==
    UNION {{r.access_token : r \in result[q].value} :
               q \in {q \in Procs : op[q] = "authenticate" /\ pc[q] = "done"}}

NextCurrent ==
    \/ RegValidate("p1", ValidData(E_ann, U_ann))
    \/ RegPreCheck("p1")
    \/ RegBuild("p1", "salt1")
    \/ RegCommit("p1", "none")
    \/ RegRefresh("p1", "none")
    \/ \E pw \in LoginPasswords : AuthLookup("p1", U_ann, pw)
    \/ AuthSet("p1")
    \/ AuthCommit("p1", "none")
    \/ AuthRefresh("p1", "none")
    \/ AuthRespond("p1")
    \/ \E d \in {[sub |-> uuid_str(1)], [sub |-> uuid_str(1), iat |-> PyNone]},
          delta \in {{}, {1}} : IssueToken(d, delta)
    \/ \E held \in AuthTokens \cup client.token :
           \E token \in Presentable(held) : GetCurrentUser("p2", token)
    \/ \E bind \in BindProcessors : CurrentUserQuery("p2", bind)
    \/ \E p \in Procs : Return(p)
    \/ Tick(MaxTime)

SpecCurrent == Init /\ [][NextCurrent]_vars

(***************************************************************************)
(* SpecSchema: UserCreate objects are constructed from the registration    *)
(* data of SpecSeq and from data with a field the schema does not define.  *)
(***************************************************************************)
S_not_allowed == <<"n", "o", "t", " ", "a", "l", "l", "o", "w", "e", "d">>

PW_SecurePass123 == <<"S", "e", "c", "u", "r", "e", "P", "a", "s", "s", "1", "2", "3">>

\* data.update(extra_field="not allowed")
WithExtraField(values) ==
    [f \in DOMAIN values \cup {"extra_field"} |->
        IF f = "extra_field" THEN S_not_allowed ELSE values[f]]

SchemaInputs ==
    SeqRegInputs
    \cup {WithExtraField(d) :
             d \in {ValidData(E_ann, U_ann), ValidData(E_bob, U_bob),
                    UserData(N_John, N_Doe, E_ann, U_ann, PW_SecurePass123),
                    UserData(N_John, N_Doe, E_bad, U_ann, PW_SecurePass)}}

NextSchema ==
    \/ \E values \in SchemaInputs : ConstructUser("p1", values)
    \/ Return("p1")

SpecSchema == Init /\ [][NextSchema]_vars

(***************************************************************************)
(* SpecLookup: two handlers register accounts, among them one whose        *)
(* username is the email of another, and authenticate by every text that   *)
(* was submitted as a username or an email, while init_db and drop_db run: *)
(* on a database that init_db has set up, on one it has yet to set up, and *)
(* on one where it has created table users and not yet the indexes.        *)
(***************************************************************************)
LookupRegInputs ==
    {ValidData(E_ann, U_ann), ValidData(E_bob, U_bob),
     UserData(N_John, N_Doe, E_bob, E_ann, PW_SecurePass),
     UserData(N_John, N_Doe, E_ann, U_bob, PW_SecurePass)}

NextLookup ==
    \/ \E p \in Procs, d \in LookupRegInputs : RegValidate(p, d)
    \/ \E p \in Procs : RegPreCheck(p)
    \/ \E p \in Procs : RegBuild(p, "salt1")
    \/ \E p \in Procs, fault \in RegFaults : RegCommit(p, fault)
    \/ \E p \in Procs, fault \in RegFaults : RegRefresh(p, fault)
    \/ \E p \in Procs, i \in {U_ann, U_bob, E_ann, E_bob} :
           AuthLookup(p, i, PW_SecurePass)
    \/ \E p \in Procs : AuthSet(p)
    \/ \E p \in Procs : AuthCommit(p, "none")
    \/ \E p \in Procs : AuthRefresh(p, "none")
    \/ \E p \in Procs : AuthRespond(p)
    \/ \E p \in Procs : Return(p)
    \/ InitDb
    \/ \E ix \in UniqueIndexes : InitDbIndex(ix)
    \/ InitDbCalculations
    \/ DropDb
    \/ DropDbUsers

SpecLookup ==
    /\ Init \/ Start({}, "idle") \/ Start({"users"}, "create_indexes")
    /\ [][NextLookup]_vars

TypeOK ==
    /\ nextId \in 1..(MaxOps + 1)
    /\ now \in 0..MaxTime
    /\ opsStarted \in 0..MaxOps
    /\ tables \in SUBSET (AllTables \cup UniqueIndexes)
    /\ pc[Admin] \in {"idle", "create_indexes", "create_calculations", "drop_users"}
    /\ \A p \in Procs :
           pc[p] \in {"idle", "reg_check", "reg_build", "reg_commit", "reg_refresh",
                      "auth_set", "auth_commit", "auth_refresh", "auth_respond",
                      "login_commit", "calc_refresh", "current_query", "done"}

(***************************************************************************)
(* Properties.                                                             *)
(***************************************************************************)
RegisterDone(p) == pc[p] = "done" /\ op[p] = "register"

AuthDone(p) == pc[p] = "done" /\ op[p] = "authenticate"

\* the validated data a register handler works on
UserCreateOf(p) == CHOOSE uc \in local[p] : TRUE

\* C1 (as claimed): in every reachable state no two stored accounts share a
\* username, no two share an email, and every stored account has a non-empty
\* password hash.  Two registrations that commit after CREATE TABLE users
\* and before the unique indexes exist store accounts that share a username
\* or an email.
C1_UniqueAccountsAsClaimed ==
    /\ \A u, v \in users : (u.username = v.username \/ u.email = v.email) => u = v
    /\ \A u \in users : Len(u.hashed_password) > 0

\* the account a register handler inserted, once it is past its commit
Committed(p) ==
    {r \in local[p] : op[p] = "register" /\ (pc[p] = "reg_refresh" \/
                          (pc[p] = "done" /\ exit[p] \in {"return", "refresh_error"}))}

SameIdentity(a, b) == a.username = b.username \/ a.email = b.email

\* p and q passed the pre-check before either committed, and q committed
\* first: p is at its commit while the account of q is stored
Racing(p, q) ==
    /\ p # q /\ pc[p] = "reg_commit"
    /\ \E r \in Committed(q) : r.id \in {u.id : u \in users} /\ SameIdentity(UserCreateOf(p), r)

\* C2 (as claimed): when two registrations with the same username or the
\* same email both pass the pre-check before either commits, the later
\* commit is rejected: it fails with the duplicate error and stores nothing,
\* the earlier request is the one that returns an account, and exactly one
\* account with the shared username (email) is stored.  Without the unique
\* index of the shared column the later commit stores a second account.
C2_RaceHasOneWinnerAsClaimed ==
    [][\A p, q \in Procs :
        (Racing(p, q) /\ pc'[p] # "reg_commit" /\ exit'[p] # "commit_error") =>
            /\ result'[p] = ValueError("", DUPLICATE_MESSAGE) /\ pc'[p] = "done"
            /\ users' = users
            /\ (pc[q] = "done" /\ exit[q] # "refresh_error") => result[q].kind = "return"
            /\ \A r \in Committed(q) :
                  /\ r.username = UserCreateOf(p).username =>
                         Cardinality({u \in users' : u.username = r.username}) = 1
                  /\ r.email = UserCreateOf(p).email =>
                         Cardinality({u \in users' : u.email = r.email}) = 1]_vars

\* C3 (as claimed): a registration with valid data whose username equals
\* that of an existing account with a different email, or whose email equals
\* that of an existing account with a different username, fails with the
\* error whose message is exactly "Username or email already exists".
C3_DuplicateMessageAsClaimed ==
    [][\A p \in Procs :
        (/\ pc[p] = "reg_check" /\ pc'[p] # "reg_check"
         /\ \E u \in users :
               \/ u.username = UserCreateOf(p).username /\ u.email # UserCreateOf(p).email
               \/ u.email = UserCreateOf(p).email /\ u.username # UserCreateOf(p).username)
        => result'[p] = ValueError("", DUPLICATE_MESSAGE)]_vars

\* C4 (as claimed): the failure of the commit on an integrity violation and
\* the failure of the pre-check are the same error with the same message.
C4_SameErrorOnBothPathsAsClaimed ==
    \A p, q \in Procs :
        (RegisterDone(p) /\ exit[p] = "integrity" /\ RegisterDone(q) /\ exit[q] = "precheck")
        => result[p] = result[q]

\* the claim's password policy, stated on its own; a digit, an uppercase or
\* lowercase letter and an alphanumeric character are what str.isdigit,
\* str.isupper, str.islower and str.isalnum take them to be
HasChar(password, class) == \E i \in DOMAIN password : password[i] \in class

PasswordAccepted(values) ==
    /\ values.has_password
    /\ Len(values.password) >= 8 /\ Len(values.password) <= 128
    /\ HasChar(values.password, Digits)
    /\ HasChar(values.password, Upper)
    /\ HasChar(values.password, Lower)
    /\ HasChar(values.password, SpecialChars)

FieldsAccepted(values) ==
    /\ Len(values.first_name) \in 1..50
    /\ Len(values.last_name) \in 1..50
    /\ EmailValid(values.email)
    /\ Len(values.username) \in 3..50
    /\ \A i \in DOMAIN values.username : values.username[i] \in Alnum

IsValidationError(r) == r.kind = "ValueError" /\ r.prefix = "Validation error: "

\* C5: register fails with a validation error exactly when a field
\* constraint is violated: the password must have 8 to 128 characters with a
\* digit, an uppercase letter, a lowercase letter and a special character,
\* the names 1 to 50 characters, the username 3 to 50 alphanumeric characters.
C5_ValidationPolicy ==
    \A p \in Procs :
        RegisterDone(p) =>
            /\ IsValidationError(result[p]) <=>
                   ~(PasswordAccepted(args[p]) /\ FieldsAccepted(args[p]))
            /\ FieldsAccepted(args[p]) =>
                   (PasswordAccepted(args[p]) <=> exit[p] # "validation")

\* a 128-character password was accepted and the account stored
C5_Witness ==
    \E p \in Procs :
        /\ RegisterDone(p) /\ args[p].password = PW_Max128
        /\ result[p].kind = "return" /\ result[p].value \subseteq users

\* the checks of the password in the claimed order, each with its reason
PasswordChecks(values) ==
    <<[fails |-> ~values.has_password,
       reason |-> "Password must be provided"],
      [fails |-> Len(values.password) < 8,
       reason |-> "Password must be at least 8 characters long"],
      [fails |-> Len(values.password) > 128,
       reason |-> "Password must not exceed 128 characters"],
      [fails |-> ~HasChar(values.password, Digits),
       reason |-> "Password must contain at least one digit"],
      [fails |-> ~HasChar(values.password, Upper),
       reason |-> "Password must contain at least one uppercase letter"],
      [fails |-> ~HasChar(values.password, Lower),
       reason |-> "Password must contain at least one lowercase letter"],
      [fails |-> ~HasChar(values.password, SpecialChars),
       reason |-> "Password must contain at least one special character"]>>

FirstFailingReason(values) ==
    LET checks == PasswordChecks(values)
        failing == {i \in DOMAIN checks : checks[i].fails}
        first == CHOOSE i \in failing : \A j \in failing : i <= j
    IN  checks[first].reason

\* C6: a rejected password is reported with the reason of the first failing
\* check in the order missing, too short, too long, no digit, no uppercase,
\* no lowercase, no special character; "short" reports the minimum length,
\* "NoDigitsHere!" the missing digit, "12345678" the missing uppercase letter.
C6_FirstFailingCheck ==
    \A p \in Procs :
        RegisterDone(p) =>
            /\ ~PasswordAccepted(args[p]) =>
                   result[p] = ValueError("Validation error: ", FirstFailingReason(args[p]))
            /\ (args[p].has_password /\ args[p].password = PW_short) =>
                   result[p].detail = "Password must be at least 8 characters long"
            /\ (args[p].has_password /\ args[p].password = PW_NoDigitsHere) =>
                   result[p].detail = "Password must contain at least one digit"
            /\ (args[p].has_password /\ args[p].password = PW_12345678) =>
                   result[p].detail = "Password must contain at least one uppercase letter"

\* a password without digit, uppercase letter and special character was
\* rejected for the missing digit
C6_Witness ==
    \E p \in Procs :
        /\ RegisterDone(p) /\ args[p].has_password /\ args[p].password = PW_a128
        /\ result[p].detail = "Password must contain at least one digit"

\* the step by which register stores its account, and the one by which it
\* returns it
RegisterCommits(p) == pc[p] = "reg_commit" /\ pc'[p] = "reg_refresh"

RegisterReturns(p) ==
    pc[p] = "reg_refresh" /\ pc'[p] = "done" /\ result'[p].kind = "return"

\* what C7 says of the account apart from its email and its last-login
RegisteredAccount(p, row) ==
    /\ row.first_name = args[p].first_name
    /\ row.last_name = args[p].last_name
    /\ row.username = args[p].username
    /\ \E salt \in Salts : row.hashed_password = hash_password(args[p].password, salt)
    /\ row.hashed_password # args[p].password
    /\ row.is_verified = FALSE
    /\ row.id > 0
    /\ row.created_at \in 0..now

\* exactly one account is added, with a fresh identifier
AddsOne(row) ==
    /\ users' = users \cup {row} /\ row \notin users
    /\ \A u \in users : u.id # row.id

\* the last-login of the stored account u becomes that of v by the commit of
\* an authenticate or of an update_last_login that holds the account
LastLoginCommitted(u, v) ==
    \E q \in Procs :
        /\ \/ op[q] = "authenticate" /\ pc[q] = "auth_commit" /\ pc'[q] = "auth_refresh"
           \/ op[q] = "update_last_login" /\ pc[q] = "login_commit" /\ pc'[q] = "done"
        /\ \E held \in local[q] : held.id = u.id /\ v.last_login = held.last_login

\* C7 (as claimed): a successful register adds exactly one account and
\* returns it, with first name, last name, email and username equal to the
\* submitted values, the hash of the submitted password, verified false,
\* last-login empty, a fresh identifier and a creation timestamp.
C7_ReturnsSubmittedValuesAsClaimed ==
    [][\A p \in Procs :
        /\ RegisterCommits(p) => \E row \in local'[p] : AddsOne(row)
        /\ RegisterReturns(p) =>
              \E row \in result'[p].value :
                  /\ row \in users /\ users' = users
                  /\ RegisteredAccount(p, row)
                  /\ row.email = args[p].email
                  /\ row.last_login = {}]_vars

\* C7 (amended): a successful register adds exactly one account, with a
\* fresh identifier, the submitted names and username, the hash of the
\* submitted password, verified false, last-login empty and a creation
\* timestamp; its email is the submitted one in normalised form (the address
\* taken out of a text  name <address>, white space stripped, the domain
\* part in lower case).  It returns the account as stored at the moment it
\* is read back: the same fields, and the last-login of the stored row, which
\* is still empty unless the commit of an authenticate or of an
\* update_last_login of another request has set it since; no other step
\* changes the last-login of a stored account.
C7_ReturnsNormalisedEmail ==
    [][/\ \A p \in Procs :
           /\ RegisterCommits(p) =>
                 \E row \in local'[p] :
                     /\ AddsOne(row)
                     /\ RegisteredAccount(p, row)
                     /\ row.email = NormalizeEmail(args[p].email)
                     /\ row.last_login = {}
           /\ RegisterReturns(p) =>
                 \E row \in result'[p].value, new_user \in local[p] :
                     /\ row \in users /\ users' = users
                     /\ row.id = new_user.id /\ row.created_at = new_user.created_at
                     /\ RegisteredAccount(p, row)
                     /\ row.email = NormalizeEmail(args[p].email)
       /\ \A u \in users, v \in users' :
             (v.id = u.id /\ v.last_login # u.last_login) => LastLoginCommitted(u, v)]_vars

\* an account was returned whose email differs from the submitted one, and
\* one whose last-login was set by an authenticate that ran between the
\* commit and the return
C7_Witness ==
    \E p \in Procs :
        /\ RegisterDone(p) /\ result[p].kind = "return" /\ args[p].email = E_annPrettyUp
        /\ \E row \in result[p].value : row \in users /\ row.email = E_ann /\ row.last_login # {}

\* C8 (as claimed): on every failure path of register the stored accounts
\* are as before the call: no account that the failed call inserted is stored.
C8_FailureLeavesStorageAsClaimed ==
    \A p \in Procs :
        (RegisterDone(p) /\ result[p].kind = "ValueError" /\ exit[p] = "refresh_error") =>
            \A r \in local[p] : \A u \in users : u.id # r.id

\* the step by which authenticate looks the account up
AuthStarts(p) == pc[p] = "idle" /\ op'[p] = "authenticate"

Matches(u, identifier) == u.username = identifier \/ u.email = identifier

\* C9: authenticate returns null, without raising, whenever no account has
\* the identifier as username or email, or the password does not verify
\* against the hash of the matching account.
C9_BadCredentialsReturnNull ==
    [][\A p \in Procs :
        (/\ AuthStarts(p)
         /\ \A u \in users : Matches(u, args'[p].identifier)
                                => verify_password(u, args'[p].password) # Returned(TRUE))
        => /\ pc'[p] = "done"
           /\ result'[p] = ReturnedNone
           /\ users' = users]_vars

\* null was returned for an existing username with a wrong password
C9_Witness ==
    \E p \in Procs :
        /\ AuthDone(p) /\ result[p] = ReturnedNone
        /\ \E u \in users : /\ u.username = args[p].identifier
                            /\ verify_password(u, args[p].password) # Returned(TRUE)

\* the account object of an authenticate handler
UserOf(p) == CHOOSE u \in local[p] : TRUE

\* C10 (as claimed): with the username or the email of a registered account
\* and its password, authenticate finds that account and reads the current
\* time into its last-login; unless the storage fails, the commit stores that
\* last-login, and a bearer token is returned whose subject is the id of the
\* account, with the public data of the account.  Of two stored accounts
\* with the identifier the query returns either, so one of them is not found.
C10_AuthenticateSucceedsAsClaimed ==
    [][\A p \in Procs :
        /\ AuthStarts(p) =>
              \A u \in users :
                  (Matches(u, args'[p].identifier)
                   /\ verify_password(u, args'[p].password) = Returned(TRUE))
                  => pc'[p] = "auth_set" /\ local'[p] = {u}
        /\ (pc[p] = "auth_set" /\ pc'[p] # "auth_set") =>
              /\ pc'[p] = "auth_commit"
              /\ local'[p] = {[UserOf(p) EXCEPT !.last_login = {now}]}
        /\ (pc[p] = "auth_commit" /\ pc'[p] = "auth_refresh") =>
              \E u \in users, v \in users' :
                  /\ u.id = UserOf(p).id /\ v.id = u.id
                  /\ v.last_login = UserOf(p).last_login
                  /\ [v EXCEPT !.last_login = {}, !.updated_at = 0]
                       = [u EXCEPT !.last_login = {}, !.updated_at = 0]
                  /\ users' \ {v} = users \ {u}
        /\ (pc[p] = "auth_refresh" /\ pc'[p] = "auth_respond") =>
              /\ local'[p] \subseteq users
              /\ \E v \in local'[p] : v.id = UserOf(p).id
        /\ (pc[p] = "auth_respond" /\ pc'[p] = "done") =>
              \E tok \in result'[p].value :
                  /\ Matches(UserOf(p), args[p].identifier)
                  /\ tok.token_type = "bearer"
                  /\ TokenClaims(tok.access_token).sub = uuid_str(UserOf(p).id)
                  /\ tok.user.id = UserOf(p).id
                  /\ tok.user.username = UserOf(p).username
                  /\ tok.user.email = UserOf(p).email
                  /\ tok.user.first_name = UserOf(p).first_name
                  /\ tok.user.last_name = UserOf(p).last_name
                  /\ tok.user.is_verified = UserOf(p).is_verified
                  /\ tok.user.created_at = UserOf(p).created_at]_vars

(***************************************************************************)
(* create_access_token then verify_token.                                  *)
(***************************************************************************)
\* verify_token was given the token that create_access_token returned
RoundTrip == client.stage = "verified" /\ client.presented = client.token

IssuedData == CHOOSE d \in client.data : TRUE

\* the instant the held token expires
Expiry == expire(client.expires_delta, CHOOSE t \in client.issued_at : TRUE)

VerifiedAt == CHOOSE t \in client.verified_at : TRUE

SameSubject == \E c \in client.payload.value : c.sub = IssuedData.sub

\* the claims hold one that jwt.decode refuses at every time: a subject or
\* a "jti" that is not a str, an "aud" or an "at_hash" (verify_token passes
\* no audience and no access token), an "iat" or "nbf" that is no number
RefusedClaims(d) ==
    \/ ~isinstance_str(d.sub)
    \/ "aud" \in DOMAIN d \/ "at_hash" \in DOMAIN d
    \/ "jti" \in DOMAIN d /\ ~isinstance_str(d.jti)
    \/ \E k \in {"iat", "nbf"} \cap DOMAIN d : int(d[k]).kind # "return"

\* an "iat" or "nbf" of None
NullTimeClaim(d) == \E k \in {"iat", "nbf"} \cap DOMAIN d : d[k] = PyNone

\* the second before which the token is not valid
NotBefore(d) == IF "nbf" \in DOMAIN d THEN CHOOSE n \in int(d.nbf).value : TRUE ELSE 0

\* C11 as the claim states it: verify_token gives back the subject of any
\* claims at every instant before the expiry, and None at every instant
\* after it
C11_RoundTripAsClaimed ==
    RoundTrip =>
        /\ VerifiedAt < Expiry => SameSubject
        /\ VerifiedAt > Expiry => client.payload = ReturnedNone

\* C11: for claims that hold nothing jwt.decode refuses, verify_token gives
\* back the subject of an issued token at every instant from the second of
\* its "nbf", if it has one, up to the end of the whole second of its
\* expiry, and None at every instant of an earlier or a later second; for
\* claims that hold something refused it gives no claims at any instant:
\* None, or the TypeError of an "iat" or "nbf" that is None
C11_RoundTripBySeconds ==
    RoundTrip =>
        IF /\ ~RefusedClaims(IssuedData)
           /\ NotBefore(IssuedData) <= timegm(VerifiedAt)
           /\ timegm(VerifiedAt) <= timegm(Expiry)
        THEN SameSubject
        ELSE \/ client.payload = ReturnedNone
             \/ client.payload.kind = "TypeError" /\ NullTimeClaim(IssuedData)

\* an issued token with a str subject was verified before its expiry and,
\* a second later, is refused
C11_Witness ==
    /\ RoundTrip
    /\ isinstance_str(IssuedData.sub)
    /\ VerifiedAt > Expiry
    /\ Expiry > CHOOSE t \in client.issued_at : TRUE
    /\ client.payload = ReturnedNone


\* the token presented is the one the server issued, unaltered
Genuine == client.presented = client.token

\* C12 as the claim states it: verify_token never raises, and gives None
\* for every token that is malformed, signed with another key, altered, or
\* presented after the instant of its expiry
C12_NullForBadTokensAsClaimed ==
    client.stage = "verified" =>
        /\ client.payload.kind = "return"
        /\ (~Genuine \/ VerifiedAt > Expiry) => client.payload = ReturnedNone

\* C12: verify_token raises only the TypeError of an unaltered token the
\* server signed whose "iat" or "nbf" is None; it gives None for every token
\* that is malformed, signed with another key or altered, and no claims for
\* a token presented in a whole second later than the second of its expiry;
\* it gives claims only for the unaltered token the server signed, up to the
\* end of its expiry second
C12_NullForBadTokens ==
    client.stage = "verified" =>
        /\ \/ client.payload.kind = "return"
           \/ Genuine /\ client.payload.kind = "TypeError" /\ NullTimeClaim(IssuedData)
        /\ ~Genuine => client.payload = ReturnedNone
        /\ timegm(VerifiedAt) > timegm(Expiry) => client.payload.value = {}

\* a token with a later expiry, signed with another key, was refused
C12_Witness ==
    /\ client.stage = "verified"
    /\ \E held \in client.token :
           client.presented = {Resign(AlterExpiry(held, 3600), OTHER_KEY)}
    /\ client.payload = ReturnedNone


(***************************************************************************)
(* hash_password then verify_password.                                     *)
(***************************************************************************)
PasswordChecked == client.stage = "checked" /\ client.password # {}

\* C13: for a valid password p, verify_password against hash_password(p)
\* returns True for p and False, without raising, for every other password
C13_OnlyThePasswordVerifiesAsClaimed ==
    PasswordChecked =>
        \A p \in client.password, q \in client.candidate :
            PasswordAccepted([has_password |-> TRUE, password |-> p])
                => client.checked = Returned(q = p)

\* C14: verify_password raises TypeError, whatever the password, when the
\* hash of the account is not a str
C14_TypeErrorOnNonStringHash ==
    client.stage = "checked" =>
        \A user \in client.account :
            ~isinstance_str(user.hashed_password) => client.checked.kind = "TypeError"

\* a password was verified on an account whose hash is None
C14_Witness ==
    /\ client.stage = "checked"
    /\ client.account = {[hashed_password |-> PyNone]}
    /\ client.candidate = {PW_SecurePass}
    /\ client.checked.kind = "TypeError"


(***************************************************************************)
(* get_user_by_id.                                                         *)
(***************************************************************************)
\* the texts that uuid.UUID reads as the id
IdTexts(id) == {uuid_str(id), UuidPrefix \o <<"0">> \o Decimal(id)}

LookedUp == client' # client /\ client'.user_id # {} /\ client'.stage \in {"start", "retrieved"}

\* C15 (as claimed): get_user_by_id returns the stored account whose id the
\* identifier denotes, returns None without raising when the identifier is
\* no well-formed id or denotes no stored account, and leaves storage as it
\* was
C15_LookupByIdAsClaimed ==
    [][LookedUp =>
          /\ users' = users /\ calcs' = calcs
          /\ \A text \in client'.user_id :
                /\ \A u \in users : text \in IdTexts(u.id) => client'.retrieved = Returned(u)
                /\ (\A u \in users : text \notin IdTexts(u.id))
                       => client'.retrieved = ReturnedNone]_vars


(***************************************************************************)
(* The chain register, authenticate, verify_token, get_user_by_id.         *)
(***************************************************************************)
AfterStage(stages) == client.stage \in stages /\ client.was_free = {TRUE}

\* the account that register returned
Registered == CHOOSE u \in client.user.value : TRUE

SameAccount(a, b) ==
    /\ a.id = b.id /\ a.username = b.username /\ a.email = b.email
    /\ a.hashed_password = b.hashed_password /\ a.created_at = b.created_at

\* C16: with storage that does not fail and within the token's time to
\* live, for valid registration data whose username and email are free:
\* register returns an account; authenticate with the same username and
\* password returns a token; verify_token of it gives claims whose subject
\* is the id of that account; get_user_by_id of the subject returns that
\* account
C16_EndToEnd ==
    /\ AfterStage({"registered", "authenticate", "authenticated", "verified", "retrieved"})
           => client.user.kind = "return" /\ client.user.value # {}
    /\ AfterStage({"authenticated", "verified", "retrieved"})
           => client.auth.kind = "return" /\ client.token # {}
    /\ AfterStage({"verified", "retrieved"})
           => \E claims \in client.payload.value : claims.sub = uuid_str(Registered.id)
    /\ AfterStage({"retrieved"})
           => /\ client.user_id = {uuid_str(Registered.id)}
              /\ \E u \in client.retrieved.value :
                     /\ SameAccount(u, Registered)
                     /\ \A d \in client.user_data : u.username = d.username

\* the chain ran to its end in a storage that already held another account
C16_Witness ==
    /\ AfterStage({"retrieved"})
    /\ Cardinality(users) = 2
    /\ \E u \in client.retrieved.value : SameAccount(u, Registered)


(***************************************************************************)
(* The calculation strategies and the calculation service.                 *)
(***************************************************************************)
\* the fraction v is the value of a (+, -, *, /) b
IsResultOf(v, class, a, b) ==
    /\ v.d > 0
    /\ CASE class = "Add"      -> v.n = (a + b) * v.d
         [] class = "Sub"      -> v.n = (a - b) * v.d
         [] class = "Multiply" -> v.n = (a * b) * v.d
         [] class = "Divide"   -> v.n * b = a * v.d

Whole(n) == Returned([n |-> n, d |-> 1])

ComputeDone(p) == op[p] = "compute" /\ pc[p] = "done"

\* C17: the strategies return a+b, a-b, a*b and, where b is not zero, a/b;
\* compute(10,5,Add)=15, compute(10,5,Sub)=5, compute(10,5,Multiply)=50,
\* compute(10,2,Divide)=5; a compute step leaves storage as it was
C17_StrategiesCompute ==
    [][/\ compute("Add", 10, 5) = Whole(15)
       /\ compute("Sub", 10, 5) = Whole(5)
       /\ compute("Multiply", 10, 5) = Whole(50)
       /\ compute("Divide", 10, 2) = Whole(5)
       /\ \A p \in Procs :
              (ComputeDone(p)' /\ ~ComputeDone(p)) =>
                  /\ users' = users /\ calcs' = calcs
                  /\ LET call == args'[p]
                     IN  ~(call.strategy.class = "Divide" /\ call.b = 0) =>
                             /\ result'[p].kind = "return"
                             /\ \A v \in result'[p].value :
                                    IsResultOf(v, call.strategy.class, call.a, call.b)
                             /\ result'[p].value # {}]_vars

\* Divide().compute(-3, 2) returned -3/2
C17_Witness ==
    \E p \in Procs :
        /\ ComputeDone(p)
        /\ args[p] = [strategy |-> Strategy("Divide"), a |-> -3, b |-> 2]
        /\ result[p] = Returned([n |-> -3, d |-> 2])

DivideByZero(payload) == payload.type = "Divide" /\ payload.b = 0

\* C18: constructing a Divide request with second operand zero fails with
\* "Cannot divide by zero.", whatever the first operand; no call of
\* create_calculation gets such a request and no stored record is one
C18_DivideByZeroRejected ==
    /\ \A p \in Procs :
           (op[p] = "CalculationCreate" /\ pc[p] = "done" /\ DivideByZero(args[p]))
               => /\ result[p] = ValueError("Value error, ", "Cannot divide by zero.")
                  /\ exit[p] = "validation"
    /\ \A p \in Procs : op[p] = "create_calculation" => ~DivideByZero(args[p].payload)
    /\ \A c \in calcs : ~DivideByZero(c)

\* CalculationCreate(a=-3, b=0, type=Divide) was refused
C18_Witness ==
    \E p \in Procs :
        /\ op[p] = "CalculationCreate" /\ pc[p] = "done"
        /\ args[p].a = -3 /\ args[p].b = 0 /\ args[p].type = "Divide"
        /\ result[p].kind = "ValueError"

\* the strategy class of each kind
StrategyOf(kind) ==
    CASE kind = "Add" -> "Add" [] kind = "Sub" -> "Sub"
      [] kind = "Multiply" -> "Multiply" [] kind = "Divide" -> "Divide"

\* C19: get_strategy maps each of the four kinds to the strategy of that
\* kind, different kinds to different strategies, and raises the
\* unsupported-type error for any other value
C19_DispatchIsClosed ==
    /\ \A k1, k2 \in CalculationType :
           get_strategy(k1) = get_strategy(k2) => k1 = k2
    /\ \A p \in Procs :
           (op[p] = "get_strategy" /\ pc[p] = "done") =>
               IF args[p].type \in {"Add", "Sub", "Multiply", "Divide"}
               THEN result[p] = Returned(Strategy(StrategyOf(args[p].type)))
               ELSE /\ result[p].kind = "ValueError"
                    /\ result[p].prefix = "Unsupported calculation type: "
                    /\ result[p].value = {}

\* get_strategy("FakeType") raised
C19_Witness ==
    \E p \in Procs :
        /\ op[p] = "get_strategy" /\ pc[p] = "done"
        /\ args[p].type = "FakeType"
        /\ result[p].kind = "ValueError"

CreateReturned(p) ==
    op[p] = "create_calculation" /\ pc[p] = "done" /\ result[p].kind = "return"

\* the step by which create_calculation commits its record, and the one by
\* which it returns it
CreateCommits(p) ==
    pc[p] = "idle" /\ pc'[p] = "calc_refresh" /\ op'[p] = "create_calculation"

CreateReturns(p) == CreateReturned(p)' /\ ~CreateReturned(p)

\* C20: a record that create_calculation persists holds a, b, type and
\* user_id of the call, and is the record the call returns; the result of
\* every stored record is the value of compute for its a, b and type, not a
\* result the caller supplied; no stored record is a Divide by zero
C20_StoredCalculations ==
    [][/\ \A c \in calcs' :
              /\ compute(c.type, c.a, c.b) = Returned(c.result)
              /\ IsResultOf(c.result, StrategyOf(c.type), c.a, c.b)
              /\ ~DivideByZero(c)
       /\ \A p \in Procs :
              /\ CreateCommits(p) =>
                     \E c \in calcs' \ calcs :
                         /\ calcs' = calcs \cup {c}
                         /\ local'[p] = {c}
                         /\ c.a = args'[p].payload.a
                         /\ c.b = args'[p].payload.b
                         /\ c.type = args'[p].payload.type
                         /\ c.user_id = args'[p].user_id
              /\ CreateReturns(p) =>
                     /\ result'[p].value = local[p]
                     /\ local[p] \subseteq calcs]_vars

\* the record of 10 / 2 is stored with result 5 for a stored account, next
\* to another record
C20_Witness ==
    /\ Cardinality(calcs) = 2
    /\ \E c \in calcs, u \in users :
           /\ c.user_id = u.id
           /\ c.a = 10 /\ c.b = 2 /\ c.type = "Divide"
           /\ c.result = [n |-> 5, d |-> 1]


\* a call of create_calculation raises at the dispatch or in compute
CreateFails(p) ==
    pc[p] = "idle" /\ pc'[p] = "done" /\ op'[p] = "create_calculation"
        /\ exit'[p] = "compute_error"

\* C21: a create_calculation that returns has inserted exactly one record,
\* the one it returns, and left every account and every other record as it
\* was; one that raises at the dispatch or in compute has changed no table
C21_CreateInsertsOneRecord ==
    [][\A p \in Procs :
           /\ CreateCommits(p) =>
                  /\ users' = users
                  /\ \E c \in calcs' : c \notin calcs /\ calcs' = calcs \cup {c}
                                         /\ local'[p] = {c}
           /\ CreateReturns(p) =>
                  /\ users' = users /\ calcs' = calcs
                  /\ \E c \in local[p] : result'[p] = Returned(c) /\ c \in calcs
           /\ CreateFails(p) =>
                  /\ users' = users /\ calcs' = calcs
                  /\ result'[p].kind = "ValueError"]_vars

\* with one record stored, a create of a Divide by zero has raised in compute
C21_Witness ==
    \E p \in Procs :
        /\ op[p] = "create_calculation" /\ pc[p] = "done"
        /\ exit[p] = "compute_error"
        /\ args[p].payload.type = "Divide"
        /\ Cardinality(calcs) = 1


(***************************************************************************)
(* The owner of a calculation record.                                      *)
(***************************************************************************)
\* C22 (as claimed): in every reachable state each stored calculation record
\* references an account that exists
C22_RecordsOwnedAsClaimed ==
    \A c \in calcs : \E u \in users : u.id = c.user_id


(***************************************************************************)
(* Unexpected storage errors.                                              *)
(***************************************************************************)
StorageErrorExits == {"query_error", "commit_error", "refresh_error", "response_error"}

\* C23: a register or authenticate call that meets an unexpected storage
\* error ends by raising to its caller, never by a normal result such as
\* None
C23_StorageErrorsRaisedAsClaimed ==
    [][\A p \in Procs :
           (/\ pc[p] # "done" /\ pc'[p] = "done"
            /\ op'[p] \in {"register", "authenticate"}
            /\ exit'[p] \in StorageErrorExits)
               => /\ result'[p] # ReturnedNone
                  /\ result'[p].kind # "return"]_vars


(***************************************************************************)
(* get_current_user.                                                       *)
(***************************************************************************)
CurrentUserStarts(p) == pc[p] = "idle" /\ op'[p] = "get_current_user"

\* the step of the query, which ends the call
CurrentUserEnds(p) ==
    pc[p] = "current_query" /\ pc'[p] = "done" /\ op[p] = "get_current_user"

\* the stored accounts that the subject of a token names
AccountsOf(token) ==
    {u \in users : Len(token) = 3 /\ \E c \in token[2] : c.sub = uuid_str(u.id)}

\* C24: get_current_user, given the token that authenticate returned for an
\* account that is still stored, before the token expires, returns the
\* public data of that account
C24_CurrentUserAsClaimed ==
    [][\A p \in Procs :
           /\ (CurrentUserStarts(p) /\ args'[p].token \in AuthTokens
                    /\ verify_token(args'[p].token, now).value # {})
                  => pc'[p] = "current_query"
           /\ (CurrentUserEnds(p) /\ args[p].token \in AuthTokens
                    /\ AccountsOf(args[p].token) # {})
                  => \E u \in AccountsOf(args[p].token) :
                         result'[p] = Returned(UserResponse(u))]_vars

\* C25: get_current_user raises the 401 error exactly when verify_token
\* rejects the token or no stored account has the id the token names; a
\* rejected token ends the call before the query; storage is left as it was
C25_UnauthorizedExactlyAsClaimed ==
    [][\A p \in Procs :
           /\ CurrentUserStarts(p) =>
                  /\ IF verify_token(args'[p].token, now).value = {}
                        THEN /\ pc'[p] = "done" /\ exit'[p] = "invalid_token"
                             /\ result'[p] = credentials_exception
                        ELSE pc'[p] = "current_query"
                  /\ users' = users /\ calcs' = calcs
           /\ CurrentUserEnds(p) =>
                  /\ result'[p] = credentials_exception <=> AccountsOf(args[p].token) = {}
                  /\ users' = users /\ calcs' = calcs]_vars


(***************************************************************************)
(* The expiry that create_access_token encodes.                            *)
(***************************************************************************)
\* the time-to-live the caller asked for: the one supplied, the default
\* when none was supplied
AskedDelta ==
    IF client.expires_delta = {}
    THEN timedelta_minutes(ACCESS_TOKEN_EXPIRE_MINUTES)
    ELSE CHOOSE d \in client.expires_delta : TRUE

\* C26: the "exp" of an issued token is the second of the issue time plus
\* the supplied time-to-live, whatever was supplied (zero included), and of
\* the issue time plus the default minutes only when none was supplied
C26_ExpiryAsClaimed ==
    \A token \in client.token, t \in client.issued_at :
        TokenClaims(token).exp = timegm(t + AskedDelta)


(***************************************************************************)
(* Fields the creation schema does not define.                             *)
(***************************************************************************)
SchemaFields == {"first_name", "last_name", "email", "username", "password"}

\* C27: creation data that carries a field the schema does not define, and
\* is valid otherwise, is rejected with a validation error
C27_ExtraFieldRejectedAsClaimed ==
    \A p \in Procs :
        (/\ pc[p] = "done" /\ op[p] = "UserCreate"
         /\ "extra_field" \in DOMAIN args[p]
         /\ \E d \in SeqRegInputs :
                /\ UserCreateReason(d) = ""
                /\ \A f \in SchemaFields : d[f] = args[p][f])
            => result[p].kind = "ValidationError"


(***************************************************************************)
(* authenticate returning None.                                            *)
(***************************************************************************)
\* C28: when authenticate has returned None, for whatever reason, no stored
\* account has changed.  The account object of the call was loaded with the
\* updated_at of its row, which is no earlier than the last-login of the
\* row; when the last-login the call assigned is later than that, it is not
\* the last-login of the row before the call, and must not be the stored one
\* after it.
C28_NullLeavesAccountsAsClaimed ==
    \A p \in Procs :
        (AuthDone(p) /\ result[p] = ReturnedNone) =>
            \A user \in local[p], u \in users :
                (u.id = user.id /\ \E t \in user.last_login : user.updated_at < t)
                    => u.last_login # user.last_login


(***************************************************************************)
(* The account an identifier names.                                        *)
(***************************************************************************)
\* the texts that can name an account: every stored username and email, and
\* every identifier a handler was given
IdentifierTexts ==
    {u.username : u \in users} \cup {u.email : u \in users}
        \cup {args[p].identifier : p \in {q \in Procs : op[q] = "authenticate"}}

\* C29 (as claimed): in every state reached by registrations, an identifier
\* is the username or the email of at most one stored account, and no
\* username of one account is the email of another; the lookup of
\* authenticate has one account to choose at most.  Two accounts stored
\* before the unique indexes exist can share a username or an email.
C29_IdentifierNamesOneAccountAsClaimed ==
    /\ \A i \in IdentifierTexts : Cardinality({u \in users : Matches(u, i)}) <= 1
    /\ \A u, v \in users : u.username # v.email

=============================================================================
